---- MODULE Spec2Model ----
(***************************************************************************)
(* A model of the MCP client of liveisdepest/agent-project                 *)
(* (src/client/mcp-client/client.py): the Connection Manager, the Response *)
(* Aggregator, the Textual Intent Extractor, the Tool Dispatcher and the   *)
(* Agent Loop of class MCPClient.                                          *)
(*                                                                         *)
(* Strings are modelled as sequences of tokens.  A token stands for a      *)
(* fixed piece of text, so concatenation, strip, splitlines, substring     *)
(* tests and JSON parsing are computed on the token sequence.  The tokens: *)
(*   "FENCE"          a code fence, three backquotes                       *)
(*   "json"           the word json (a language tag right after a fence)   *)
(*   "SP", "NL"       a blank, a line break                                *)
(*   "{" "}" "[" "]" ","   JSON punctuation                                *)
(*   "name:" "arguments:" "a:" "turn_on:" "task_id:" ...                   *)
(*                    a quoted JSON key with its colon, e.g. "name":       *)
(*   "u_arguments:"   the key "arguments": (it decodes to the key     *)
(*                    arguments, its text does not hold that word)         *)
(*   "1" "0" "true" "false" "null"   JSON atoms                            *)
(*   "'x'" "''" ...   JSON string literals (StrLit gives their content)    *)
(*   any other token  a word of plain text                                 *)
(***************************************************************************)
EXTENDS Integers, Sequences, FiniteSets, TLC

VARIABLES
    \* ---- Textual Intent Extractor (one call of _extract_text_tool_calls)
    ext_text,        \* the argument text
    ext_pc,          \* "idle", "call" before the call, "returned" after it
    extracted,       \* the list it returned
    \* ---- Response Aggregator (the fold of process_query, lines 436-471)
    agg_stream,      \* the fragments of one model response
    agg_pos,         \* the fragment the for loop reads next
    agg,             \* final_content, json_buffer, has_tool_calls, tool_calls
                     \* and whether the loop body raised
    \* ---- MCPClient: registries
    sessions,        \* self.sessions: the server ids with a Session
    tools_map,       \* self.tools_map: tool name -> [server_id, description,
                     \* input_schema]
    server_exit_stacks, \* self._server_exit_stacks: the ids with an exit stack
    server_processes,   \* self._server_processes: the ids with a child process
    session_order,   \* the keys of self.sessions in the order of insertion
    \* ---- Connection Manager: one call of load_servers_from_config
    servers,         \* config["mcpServers"], in the order of the file
    load_pc,         \* "idle", "next" (head of the for loop), "attempt"
                     \* (head of the retry loop of a connect), "handshake"
                     \* (awaiting session.initialize()), "done"
    load_pos,        \* the descriptor the for loop is at
    attempt,         \* the attempt of the retry loop
    successful_connections,
    attempts_made,   \* observation: per descriptor, the connection attempts made
    delays,          \* observation: per descriptor, the sleeps between attempts
    children_alive,  \* observation: per descriptor, the child processes the
                     \* client spawned for it that have not ended
    scopes_open,     \* observation: per descriptor, the attempt_stack scopes
                     \* entered, neither closed nor registered
    attempt_trace,   \* observation: the operations of the current attempt
    \* ---- Agent Loop: one call of process_query
    pc,              \* "idle", "request" (top of the while loop), "dispatch"
                     \* (inside _process_tool_calls), "done" (returned),
                     \* "raised" (left by an exception)
    query,           \* the user's query
    tool_cycle_count,
    tool_calls,      \* the tool calls of the current turn
    call_idx,        \* the place of the for loop of _process_tool_calls
    tool_results,    \* the entries it has appended
    is_intercepted_json,
    forced_turn,     \* the turn dispatches a forced action (lines 516-534)
    returned,        \* what process_query returned
    sensor_snapshot, \* _has_sensor_snapshot_since_last_user() of the history
    \* ---- observations of one request
    requests,        \* chat.completions.create calls made
    dispatched_cycles, \* calls of _process_tool_calls made at line 491
    premise_ok,      \* every response so far held a tool call and every
                     \* cycle so far gave a result that is no error entry
    result_classes,  \* the outcome class of each entry of tool_results
    provider_calls,  \* ids of the turn's calls that reached session.call_tool
    prompts,         \* ids of the turn's calls that reached input()
    last_prompt,     \* the latest prompt of the turn: [id, answer]
    model_calls,     \* the tool calls the model issued in the turn, structured
                     \* or intercepted from its text
    \* ---- MCPClient.conversation_history and the chat loop
    conversation_history,
    chat_turns,      \* the lines chat_loop has read
    chat_requests,   \* the model requests made since chat_loop began
    \* ---- one call of list_tools
    list_pc,         \* "idle", "listing" (inside the for loop), "done"
    list_pos,        \* the place of the for loop in the sessions
    list_log,        \* observation: the calls made so far, the names the
                     \* catalog held when this one began, and what each
                     \* session's listing met in it
    \* ---- one call of _maybe_wait_browser_use_result
    poll_pc,         \* "idle", "polling" (head of the while loop), "done"
    poll_now,        \* time.monotonic(), in seconds since the call began
    poll_deadline,
    poll_latest,     \* latest
    poll_log,        \* observation: the polls made, [at, ended, kind, status]
    poll_text,       \* what the call returned
    \* ---- one call of clean(), with _terminate_process step by step
    clean_pc,        \* "idle", "procs" (head of the for loop over the
                     \* processes), "grace" (awaiting process.wait() after
                     \* terminate()), "kill" (in the except handler), "done"
    clean_queue,     \* the ids of the processes the for loop has yet to take
    proc_exited,     \* the ids of the processes whose returncode is set
    term_trace,      \* observation: what the current call of
                     \* _terminate_process did to its process
    clean_log,       \* observation: the closes and terminations the current
                     \* (or last) call of clean() began, in order
    \* ---- the three-phase loop (spec section 4.6), one conversation
    phase_pc,        \* "idle" (awaiting a user turn), "perception",
                     \* "reasoning", "action"
    phase_input,     \* the kind of the user turn under way or just ended
    phase_turns,     \* the user turns taken
    pending_decision, \* the PendingDecision slot: the decisions held
    phase_decision,  \* what the reasoning phase of the turn decided
    phase_reply,     \* what the turn returned to the caller
    actuations,      \* observation: the decisions the action phase has
                     \* sent to an actuating tool
    \* ---- MCPClient.call_tool, the method other code calls directly
    direct_calls,    \* observation: the calls of call_tool, each with
                     \* whether it was sent to the session
    \* ---- the web front end (app.py): queries of several requests on one
    \* client, whose coroutines take turns at their awaits
    web_parked,      \* the frames (locals) of the process_query calls that
                     \* are suspended at an await; the call that runs has
                     \* its locals in the loop variables
    \* ---- the start of the web front end (app.py lines 83-124) and the
    \* queries it receives meanwhile
    init_pc,         \* where init_mcp_client stands: "none" (no web front
                     \* end), "sleeping", "loading", "listing", and "ready",
                     \* "restricted" or "failed" once it is over
    mcp_client_set,  \* the global mcp_client is not None
    mcp_initialized, \* the global mcp_initialized
    web_log,         \* observation: the queries received, each with its
                     \* entry point, what became of it and the state of
                     \* the initialization at that moment
    \* ---- the browser server (server.py): its tasks and their registries
    task_store,      \* task id -> status, the entries of the dict task_store
                     \* ("absent": the id is no key of the dict)
    running_tasks,   \* the ids that are keys of the dict running_tasks
    task_pc,         \* where the coroutine run_browser_task_async of each
                     \* id stands: "none" (no such task), "unstarted",
                     \* "agent" (at `await agent.run`), "cleanup", "done"
    cancel_calls,    \* observation: the calls of Task.cancel() per id
    srv_log          \* observation: the answers of browser_stop_task and
                     \* browser_get_result, in order

ext_vars == <<ext_text, ext_pc, extracted>>
agg_vars == <<agg_stream, agg_pos, agg>>
reg_vars == <<sessions, tools_map, server_exit_stacks, server_processes, session_order>>
load_vars == <<servers, load_pc, load_pos, attempt, successful_connections,
               attempts_made, delays, children_alive, scopes_open, attempt_trace>>
loop_vars == <<pc, query, tool_cycle_count, tool_calls, call_idx, tool_results,
               is_intercepted_json, forced_turn, returned, sensor_snapshot>>
obs_vars == <<requests, dispatched_cycles, premise_ok, result_classes,
              provider_calls, prompts, last_prompt, model_calls>>
hist_vars == <<conversation_history, chat_turns, chat_requests>>
list_vars == <<list_pc, list_pos, list_log>>
poll_vars == <<poll_pc, poll_now, poll_deadline, poll_latest, poll_log, poll_text>>
clean_vars == <<clean_pc, clean_queue, proc_exited, term_trace, clean_log>>
\* the variables of the operations beside the main flow
phase_vars == <<phase_pc, phase_input, phase_turns, pending_decision, phase_decision,
                phase_reply, actuations>>
api_vars == <<direct_calls>>
web_vars == <<web_parked>>
\* the components at the edge of the client
admit_vars == <<init_pc, mcp_client_set, mcp_initialized, web_log>>
srv_vars == <<task_store, running_tasks, task_pc, cancel_calls, srv_log>>
edge_vars == <<web_vars, admit_vars, srv_vars>>
side_vars == <<clean_vars, phase_vars, api_vars, edge_vars>>

vars == <<ext_text, ext_pc, extracted, agg_stream, agg_pos, agg,
          sessions, tools_map, server_exit_stacks, server_processes, session_order,
          servers, load_pc, load_pos, attempt, successful_connections,
          attempts_made, delays, children_alive, scopes_open, attempt_trace,
          pc, query, tool_cycle_count, tool_calls, call_idx, tool_results,
          is_intercepted_json, forced_turn, returned, sensor_snapshot,
          requests, dispatched_cycles, premise_ok, result_classes,
          provider_calls, prompts, last_prompt, model_calls,
          conversation_history, chat_turns, chat_requests, list_pc, list_pos, list_log,
          poll_pc, poll_now, poll_deadline, poll_latest, poll_log, poll_text,
          clean_pc, clean_queue, proc_exited, term_trace, clean_log,
          phase_pc, phase_input, phase_turns, pending_decision, phase_decision,
          phase_reply, actuations, direct_calls,
          web_parked, init_pc, mcp_client_set, mcp_initialized, web_log,
          task_store, running_tasks, task_pc, cancel_calls, srv_log>>

----------------------------------------------------------------------------
(* Sequence helpers *)

Range(s) == {s[i] : i \in 1..Len(s)}

RECURSIVE Flatten(_)
Flatten(ss) == IF ss = <<>> THEN <<>> ELSE Head(ss) \o Flatten(Tail(ss))

----------------------------------------------------------------------------
(* Python str methods on token sequences *)

Whitespace == {"SP", "NL"}

\* the first position >= i that holds no whitespace (Len+1 when there is none)
RECURSIVE SkipWs(_, _)
SkipWs(toks, i) ==
    IF i > Len(toks) THEN Len(toks) + 1
    ELSE IF toks[i] \in Whitespace THEN SkipWs(toks, i + 1) ELSE i

\* the last position <= i that holds no whitespace (0 when there is none)
RECURSIVE SkipWsBack(_, _)
SkipWsBack(toks, i) ==
    IF i < 1 THEN 0
    ELSE IF toks[i] \in Whitespace THEN SkipWsBack(toks, i - 1) ELSE i

\* str.strip()
Strip(toks) ==
    LET a == SkipWs(toks, 1)
        b == SkipWsBack(toks, Len(toks))
    IN  IF a > b THEN <<>> ELSE SubSeq(toks, a, b)

\* str.splitlines(): the lines between line breaks, no empty last line
RECURSIVE SplitLines(_)
SplitLines(toks) ==
    IF toks = <<>> THEN <<>>
    ELSE IF \E i \in 1..Len(toks) : toks[i] = "NL"
         THEN LET p == CHOOSE i \in 1..Len(toks) :
                          /\ toks[i] = "NL"
                          /\ \A j \in 1..(i - 1) : toks[j] # "NL"
              IN  <<SubSeq(toks, 1, p - 1)>> \o SplitLines(SubSeq(toks, p + 1, Len(toks)))
         ELSE <<toks>>

\* the tokens whose text holds the word arguments
ArgumentsTokens == {"arguments:", "arguments"}

\* "arguments" in buf
ContainsArguments(toks) == \E i \in 1..Len(toks) : toks[i] \in ArgumentsTokens

----------------------------------------------------------------------------
(* json.loads / json.dumps / str() on token sequences.                     *)
(* A JSON value is a record [t, a, items]: t its type, a the content of an *)
(* atom (a token sequence), items the members <<key, value>> of an object  *)
(* or the elements of an array.                                            *)

KeyName == [k \in {"name:", "arguments:", "u_arguments:", "a:", "turn_on:",
                   "task_id:", "status:", "url:", "action:"} |->
              CASE k = "name:" -> "name"
                [] k = "arguments:" -> "arguments"
                [] k = "u_arguments:" -> "arguments"
                [] k = "a:" -> "a"
                [] k = "turn_on:" -> "turn_on"
                [] k = "task_id:" -> "task_id"
                [] k = "status:" -> "status"
                [] k = "url:" -> "url"
                [] k = "action:" -> "action"]

KeyTokens == DOMAIN KeyName

\* the token json.dumps writes for a key
KeyToken(name) ==
    CASE name = "name" -> "name:"
      [] name = "arguments" -> "arguments:"
      [] name = "a" -> "a:"
      [] name = "turn_on" -> "turn_on:"
      [] name = "task_id" -> "task_id:"
      [] name = "status" -> "status:"
      [] name = "url" -> "url:"
      [] name = "action" -> "action:"

\* the content of the string literals
StrLit == [l \in {"'x'", "''", "'get_sensor_data'", "'control_pump'",
                  "'{a:1}'", "'t1'", "'pending'", "'running'", "'completed'",
                  "'search_url'", "'summarise'"} |->
              CASE l = "'x'" -> <<"x">>
                [] l = "''" -> <<>>
                [] l = "'get_sensor_data'" -> <<"get_", "sensor_", "data">>
                [] l = "'control_pump'" -> <<"control_", "pump">>
                [] l = "'{a:1}'" -> <<"{", "a:", "1", "}">>
                [] l = "'t1'" -> <<"t1">>
                [] l = "'pending'" -> <<"pending">>
                [] l = "'running'" -> <<"running">>
                [] l = "'completed'" -> <<"completed">>
                [] l = "'search_url'" -> <<"search_url">>
                [] l = "'summarise'" -> <<"summarise">>]

NumberTokens == {"0", "1"}
BoolTokens == {"true", "false"}

JNull == [t |-> "null", a |-> <<>>, items |-> <<>>]
JStr(s) == [t |-> "str", a |-> s, items |-> <<>>]
JAtom(ty, tok) == [t |-> ty, a |-> <<tok>>, items |-> <<>>]
JObj(members) == [t |-> "obj", a |-> <<>>, items |-> members]
JArr(elems) == [t |-> "arr", a |-> <<>>, items |-> elems]

ParseFail == [ok |-> FALSE, val |-> JNull, pos |-> 0]
ParseOk(v, p) == [ok |-> TRUE, val |-> v, pos |-> p]

\* dict insertion: a repeated key keeps its place and takes the new value
PutMember(members, key, val) ==
    IF \E i \in 1..Len(members) : members[i][1] = key
    THEN [i \in 1..Len(members) |->
             IF members[i][1] = key THEN <<key, val>> ELSE members[i]]
    ELSE Append(members, <<key, val>>)

RECURSIVE ParseValue(_, _), ParseMembers(_, _, _, _), ParseItems(_, _, _, _)

ParseValue(toks, i) ==
    LET j == SkipWs(toks, i)
    IN  IF j > Len(toks) THEN ParseFail
        ELSE CASE toks[j] = "{" -> ParseMembers(toks, j + 1, <<>>, TRUE)
               [] toks[j] = "[" -> ParseItems(toks, j + 1, <<>>, TRUE)
               [] toks[j] \in DOMAIN StrLit -> ParseOk(JStr(StrLit[toks[j]]), j + 1)
               [] toks[j] \in NumberTokens -> ParseOk(JAtom("num", toks[j]), j + 1)
               [] toks[j] \in BoolTokens -> ParseOk(JAtom("bool", toks[j]), j + 1)
               [] toks[j] = "null" -> ParseOk(JNull, j + 1)
               [] OTHER -> ParseFail

\* after "{" or after a comma (first = FALSE): key value pairs up to "}"
ParseMembers(toks, i, acc, first) ==
    LET j == SkipWs(toks, i)
    IN  IF j > Len(toks) THEN ParseFail
        ELSE IF toks[j] = "}" THEN (IF first THEN ParseOk(JObj(acc), j + 1) ELSE ParseFail)
        ELSE IF toks[j] \notin KeyTokens THEN ParseFail
        ELSE LET v == ParseValue(toks, j + 1)
             IN  IF ~v.ok THEN ParseFail
                 ELSE LET k == SkipWs(toks, v.pos)
                          acc2 == PutMember(acc, KeyName[toks[j]], v.val)
                      IN  IF k > Len(toks) THEN ParseFail
                          ELSE IF toks[k] = "}" THEN ParseOk(JObj(acc2), k + 1)
                          ELSE IF toks[k] = "," THEN ParseMembers(toks, k + 1, acc2, FALSE)
                          ELSE ParseFail

ParseItems(toks, i, acc, first) ==
    LET j == SkipWs(toks, i)
    IN  IF j > Len(toks) THEN ParseFail
        ELSE IF toks[j] = "]" THEN (IF first THEN ParseOk(JArr(acc), j + 1) ELSE ParseFail)
        ELSE LET v == ParseValue(toks, j)
             IN  IF ~v.ok THEN ParseFail
                 ELSE LET k == SkipWs(toks, v.pos)
                      IN  IF k > Len(toks) THEN ParseFail
                          ELSE IF toks[k] = "]" THEN ParseOk(JArr(Append(acc, v.val)), k + 1)
                          ELSE IF toks[k] = "," THEN ParseItems(toks, k + 1, Append(acc, v.val), FALSE)
                          ELSE ParseFail

\* json.loads(s): ok = FALSE stands for json.JSONDecodeError
JsonLoads(toks) ==
    LET r == ParseValue(toks, 1)
    IN  IF r.ok /\ SkipWs(toks, r.pos) > Len(toks)
        THEN [ok |-> TRUE, val |-> r.val]
        ELSE [ok |-> FALSE, val |-> JNull]

IsDict(v) == v.t = "obj"
HasKey(v, key) == IsDict(v) /\ \E i \in 1..Len(v.items) : v.items[i][1] = key
\* dict.get(key, default)
DictGet(v, key, default) ==
    IF HasKey(v, key)
    THEN v.items[CHOOSE i \in 1..Len(v.items) : v.items[i][1] = key][2]
    ELSE default

\* the string literal whose content is s
StrToken(s) == CHOOSE l \in DOMAIN StrLit : StrLit[l] = s

\* json.dumps(v, ensure_ascii=False): ", " between items and ": " after a key
RECURSIVE JsonDumps(_), DumpMembers(_), DumpItems(_)
JsonDumps(v) ==
    CASE v.t = "obj" -> <<"{">> \o DumpMembers(v.items) \o <<"}">>
      [] v.t = "arr" -> <<"[">> \o DumpItems(v.items) \o <<"]">>
      [] v.t = "str" -> <<StrToken(v.a)>>
      [] v.t = "null" -> <<"null">>
      [] OTHER -> v.a

DumpMembers(ms) ==
    IF ms = <<>> THEN <<>>
    ELSE <<KeyToken(ms[1][1]), "SP">> \o JsonDumps(ms[1][2])
         \o (IF Len(ms) = 1 THEN <<>> ELSE <<",", "SP">> \o DumpMembers(Tail(ms)))

DumpItems(es) ==
    IF es = <<>> THEN <<>>
    ELSE JsonDumps(es[1])
         \o (IF Len(es) = 1 THEN <<>> ELSE <<",", "SP">> \o DumpItems(Tail(es)))

\* str(v) of a value that is no dict and no list
PyStr(v) ==
    CASE v.t = "str" -> v.a
      [] v.t = "null" -> <<"None">>
      [] v.t = "bool" -> (IF v.a = <<"true">> THEN <<"True">> ELSE <<"False">>)
      [] OTHER -> v.a

\* not v
Falsy(v) ==
    \/ v.t = "null"
    \/ v.t = "bool" /\ v.a = <<"false">>
    \/ v.t = "num" /\ v.a = <<"0">>
    \/ v.t = "str" /\ v.a = <<>>
    \/ v.t \in {"obj", "arr"} /\ v.items = <<>>

----------------------------------------------------------------------------
(* Textual Intent Extractor: MCPClient._extract_text_tool_calls *)

\* re.findall of the fenced-block pattern (line 672) on buf from position i on:
\* the fences pair up left to right; a block starts after the fence, an
\* adjacent json tag and white space, and ends before the white space that
\* precedes the closing fence
RECURSIVE FindCodeBlocks(_, _)
FindCodeBlocks(toks, i) ==
    IF ~(\E p \in i..Len(toks) : toks[p] = "FENCE") THEN <<>>
    ELSE LET p == CHOOSE q \in i..Len(toks) :
                      /\ toks[q] = "FENCE"
                      /\ \A r \in i..(q - 1) : toks[r] # "FENCE"
             afterTag == IF p + 1 <= Len(toks) /\ toks[p + 1] = "json"
                         THEN p + 2 ELSE p + 1
             s == SkipWs(toks, afterTag)
         IN  IF ~(\E f \in s..Len(toks) : toks[f] = "FENCE") THEN <<>>
             ELSE LET f == CHOOSE g \in s..Len(toks) :
                               /\ toks[g] = "FENCE"
                               /\ \A r \in s..(g - 1) : toks[r] # "FENCE"
                      e == SkipWsBack(toks, f - 1)
                      block == IF e < s THEN <<>> ELSE SubSeq(toks, s, e)
                  IN  <<block>> \o FindCodeBlocks(toks, f + 1)

\* buf.replace(fence + "json", "").replace(fence, "") (line 691)
RECURSIVE RemoveFences(_)
RemoveFences(toks) ==
    IF toks = <<>> THEN <<>>
    ELSE IF toks[1] = "FENCE"
         THEN IF Len(toks) >= 2 /\ toks[2] = "json"
              THEN RemoveFences(SubSeq(toks, 3, Len(toks)))
              ELSE RemoveFences(Tail(toks))
         ELSE <<toks[1]>> \o RemoveFences(Tail(toks))

\* json.loads(s) gave a dict with the keys name and arguments
IsCallObject(r) == r.ok /\ IsDict(r.val) /\ HasKey(r.val, "name") /\ HasKey(r.val, "arguments")

\* a candidate as the result loop reads it: obj.get("name"), obj.get("arguments", {})
Candidate(obj) ==
    [name |-> DictGet(obj, "name", JNull), arguments |-> DictGet(obj, "arguments", JObj(<<>>))]

\* a record returned by the recursive call, read as a candidate
RecordCandidate(rec) == [name |-> JStr(rec.name), arguments |-> JStr(rec.arguments)]

\* the line scan (lines 679-688)
RECURSIVE ScanLines(_)
ScanLines(lines) ==
    IF lines = <<>> THEN <<>>
    ELSE LET line == Strip(Head(lines))
             r == JsonLoads(line)
         IN  (IF line = <<>> \/ line[1] = "FENCE" THEN <<>>
              ELSE IF IsCallObject(r) THEN <<Candidate(r.val)>> ELSE <<>>)
             \o ScanLines(Tail(lines))

\* the whole-text parse (lines 690-697)
WholeText(buf) ==
    LET r == JsonLoads(Strip(RemoveFences(buf)))
    IN  IF IsCallObject(r) THEN <<Candidate(r.val)>> ELSE <<>>

\* a result loop that keeps one record of candidates that are equal
RECURSIVE BuildRecordsDeduplicated(_, _)
BuildRecordsDeduplicated(cands, n) ==
    IF cands = <<>> THEN <<>>
    ELSE LET c == Head(cands)
             args_str == IF c.arguments.t \in {"obj", "arr"}
                         THEN JsonDumps(c.arguments) ELSE PyStr(c.arguments)
         IN  IF Falsy(c.name) \/ c \in Range(Tail(cands))
             THEN BuildRecordsDeduplicated(Tail(cands), n)
             ELSE <<[id |-> n + 1, name |-> PyStr(c.name), arguments |-> args_str]>>
                  \o BuildRecordsDeduplicated(Tail(cands), n + 1)

\* the result loop (lines 699-706); ids are fresh: here the place in the list
RECURSIVE BuildRecords(_, _)
BuildRecords(cands, n) ==
    IF cands = <<>> THEN <<>>
    ELSE LET c == Head(cands)
             args_str == IF c.arguments.t \in {"obj", "arr"}
                         THEN JsonDumps(c.arguments) ELSE PyStr(c.arguments)
         IN  IF Falsy(c.name) THEN BuildRecords(Tail(cands), n)
             ELSE <<[id |-> n + 1, name |-> PyStr(c.name), arguments |-> args_str]>>
                  \o BuildRecords(Tail(cands), n + 1)

\* PreFilter without the substring test: only the empty text is filtered
PreFilterNonEmptyOnly(buf) == buf # <<>>

\* the pre-filter (lines 664-668): the text is searched at all
PreFilter(buf) == buf # <<>> /\ ContainsArguments(buf)

RECURSIVE ExtractTextToolCalls(_), ExtractBlocks(_)

\* the recursive calls on the code blocks (lines 672-677)
ExtractBlocks(blocks) ==
    IF blocks = <<>> THEN <<>>
    ELSE LET block == Strip(Head(blocks))
         IN  (IF block = <<>> THEN <<>>
              ELSE LET recs == ExtractTextToolCalls(block)
                   IN  [k \in 1..Len(recs) |-> RecordCandidate(recs[k])])
             \o ExtractBlocks(Tail(blocks))

\* _extract_text_tool_calls(text)
ExtractTextToolCalls(text) ==
    LET buf == Strip(text)
    IN  IF ~PreFilter(buf) THEN <<>>
        ELSE LET fromBlocks == ExtractBlocks(FindCodeBlocks(buf, 1))
                 fromLines == ScanLines(SplitLines(buf))
                 candidates == fromBlocks \o fromLines
                 all == IF candidates = <<>> THEN WholeText(buf) ELSE candidates
             IN  BuildRecords(all, 0)


----------------------------------------------------------------------------
(* Response Aggregator: the for loop of process_query (lines 436-471).     *)
(* An optional string (Optional[str] of the streamed delta) is a record    *)
(* [some, s]: None has some = FALSE.                                       *)

None == [some |-> FALSE, s |-> <<>>]
Some(str) == [some |-> TRUE, s |-> str]
\* x or ""
OrEmpty(x) == IF x.some THEN x.s ELSE <<>>
\* the truth value of an optional string: None and "" are false
Truthy(x) == x.some /\ x.s # <<>>

\* the accumulators before the loop (lines 436-443)
AggStart ==
    [raised |-> FALSE, final_content |-> <<>>, json_buffer |-> <<>>,
     has_tool_calls |-> FALSE, tool_calls |-> <<>>]

\* lines 465-471 for one tool-call delta tc; TypeError when a None meets +=
MergeDelta(calls, tc) ==
    IF \E k \in 1..Len(calls) : calls[k].index = tc.index
    THEN LET k == CHOOSE j \in 1..Len(calls) :
                      /\ calls[j].index = tc.index
                      /\ \A i \in 1..(j - 1) : calls[i].index # tc.index
             existing == calls[k]
         IN  IF ~existing.arguments.some \/ ~tc.arguments.some
             THEN [raised |-> TRUE, tool_calls |-> calls]
             ELSE LET args == Some(existing.arguments.s \o tc.arguments.s)
                      nm == IF Truthy(tc.name)
                            THEN Some(OrEmpty(existing.name) \o tc.name.s)
                            ELSE existing.name
                  IN  [raised |-> FALSE,
                       tool_calls |-> [calls EXCEPT ![k] =
                                          [existing EXCEPT !.arguments = args, !.name = nm]]]
    ELSE [raised |-> FALSE, tool_calls |-> Append(calls, tc)]

RECURSIVE MergeDeltas(_, _)
MergeDeltas(calls, tcs) ==
    IF tcs = <<>> THEN [raised |-> FALSE, tool_calls |-> calls]
    ELSE LET r == MergeDelta(calls, Head(tcs))
         IN  IF r.raised THEN r ELSE MergeDeltas(r.tool_calls, Tail(tcs))

\* the loop body for one chunk (lines 446-471)
AggChunk(acc, chunk) ==
    IF ~chunk.has_delta THEN acc
    ELSE LET text == IF Truthy(chunk.content) THEN chunk.content.s ELSE <<>>
             m == MergeDeltas(acc.tool_calls, chunk.tool_calls)
         IN  [raised |-> m.raised,
              final_content |-> acc.final_content \o text,
              json_buffer |-> acc.json_buffer \o text,
              has_tool_calls |-> acc.has_tool_calls \/ chunk.tool_calls # <<>>,
              tool_calls |-> m.tool_calls]

\* the whole loop over a stream; it stops where the body raises
RECURSIVE AggregateFrom(_, _)
AggregateFrom(acc, stream) ==
    IF stream = <<>> \/ acc.raised THEN acc
    ELSE AggregateFrom(AggChunk(acc, Head(stream)), Tail(stream))

Aggregate(stream) == AggregateFrom(AggStart, stream)


----------------------------------------------------------------------------
(* Tool Dispatcher: MCPClient._process_tool_calls (lines 557-641).         *)
(* Tool names are token sequences, so that name chunks concatenate.        *)

ControlPump == <<"control_", "pump">>
GetSensorData == <<"get_", "sensor_", "data">>
BrowserUse == <<"browser_", "use">>
BrowserGetResult == <<"browser_", "get_", "result">>

\* the text of a tool name inside a message (None prints as None)
NameText(n) == IF n.some THEN n.s ELSE <<"None">>

\* the contents of the tool-result entries.  "Error:" is the prefix that
\* process_query tests; "CuoWu:" stands for the prefix of the unknown-tool
\* message (line 576), the Chinese word for error with a full-width colon.
\* an entry that says no more than that the arguments were invalid
InvalidJsonContentNoPayload(raw) == <<"Error:", "Invalid JSON arguments received:">>
InvalidJsonContent(raw) == <<"Error:", "Invalid JSON arguments received:">> \o raw
UnknownToolContent(n) == <<"CuoWu:", "no configuration found for tool">> \o NameText(n)
DeniedContent(n) ==
    <<"User denied the execution of">> \o NameText(n) \o <<"The pump state remains unchanged.">>
TimeoutContent(n) == <<"Error:", "tool call timed out">> \o NameText(n)
ExceptionContent(n) == <<"Error:", "tool call raised">> \o NameText(n)

\* result["content"].startswith("Error:") (line 496)
StartsWithError(content) == content # <<>> /\ content[1] = "Error:"

\* _normalize_tool_call (lines 643-646): a dict of the extractor or of the
\* forced action, or a streamed delta object
NormalizeToolCall(tc) ==
    IF "index" \in DOMAIN tc
    THEN [id |-> tc.id, name |-> tc.name, arguments |-> tc.arguments]
    ELSE [id |-> tc.id, name |-> Some(tc.name), arguments |-> Some(tc.arguments)]

\* the answer typed at the confirmation prompt: a sequence of characters
LowerChar(c) ==
    CASE c = "Y" -> "y" [] c = "E" -> "e" [] c = "S" -> "s" [] c = "N" -> "n"
      [] OTHER -> c
\* str.lower()
Lower(str) == [k \in 1..Len(str) |-> LowerChar(str[k])]

\* every answer but no counts as a confirmation
AffirmativeUnlessNo(answer) ==
    Lower(Strip(answer)) \notin {<<"n">>, <<"n", "o">>}

\* input(...).strip().lower() in ['y', 'yes'] (lines 595-597)
Affirmative(answer) ==
    Lower(Strip(answer)) \in {<<"y">>, <<"y", "e", "s">>}

DefaultToolTimeout == 120
PollInterval == 5

\* the while loop of _maybe_wait_browser_use_result (lines 825-837) with the
\* clock at now: polls are the answers of browser_get_result still to come
\* (a task that is never seen to finish answers running after them); a poll
\* is [kind, status, final, raw, err] and takes no time here
RunningPoll == [kind |-> "ok", status |-> "running", final |-> FALSE, raw |-> FALSE]
RECURSIVE PollLoop(_, _, _, _)
PollLoop(latest, polls, now, deadline) ==
    IF ~(now + PollInterval <= deadline) THEN latest
    ELSE LET p == IF polls = <<>> THEN RunningPoll ELSE Head(polls)
             rest == IF polls = <<>> THEN <<>> ELSE Tail(polls)
         IN  IF p.kind # "ok" THEN latest
             ELSE IF p.status \in {"completed", "failed"} THEN p
             ELSE PollLoop(p, rest, now + PollInterval, deadline)

\* a translation that prefers the raw content to the summary
BrowserResultTextRawFirst(latest, dump) ==
    IF latest.status = "completed" /\ latest.raw
    THEN <<"[Browser Result (Raw Content)]", "extracted_content">>
    ELSE IF latest.status = "completed" /\ latest.final
         THEN <<"[Browser Result]", "final_result">>
    ELSE IF latest.status = "failed" THEN <<"[Browser Task Failed]", "NL", "Error:", "detail">>
    ELSE dump

\* lines 839-858: the text made of the latest status
BrowserResultText(latest, dump) ==
    IF latest.status = "completed" /\ latest.final THEN <<"[Browser Result]", "final_result">>
    ELSE IF latest.status = "completed" /\ latest.raw
         THEN <<"[Browser Result (Raw Content)]", "extracted_content">>
    ELSE IF latest.status = "failed" THEN <<"[Browser Task Failed]", "NL", "Error:", "detail">>
    ELSE dump

\* _maybe_wait_browser_use_result (lines 811-858); raised stands for the
\* AttributeError of data.get on a value that is no dict
MaybeWaitBrowserUseResult(result_content, polls, tool_timeout) ==
    LET data == JsonLoads(result_content)
    IN  IF ~data.ok THEN [raised |-> FALSE, content |-> result_content]
        ELSE IF ~IsDict(data.val) THEN [raised |-> TRUE, content |-> <<>>]
        ELSE LET task_id == DictGet(data.val, "task_id", JNull)
                 status == DictGet(data.val, "status", JNull)
             IN  IF Falsy(task_id) \/ status \notin {JStr(<<"pending">>), JStr(<<"running">>)}
                 THEN [raised |-> FALSE, content |-> result_content]
                 ELSE LET first == [kind |-> "ok", status |-> status.a[1],
                                    final |-> FALSE, raw |-> FALSE]
                          latest == PollLoop(first, polls, 0, tool_timeout)
                          dump == IF latest = first
                                  THEN JsonDumps(data.val)
                                  ELSE <<"{", "status:", "SP", latest.status, "}">>
                      IN  [raised |-> FALSE, content |-> BrowserResultText(latest, dump)]

\* what the loop body does for one tool call tc: the entry it appends, or
\* raised for an exception that leaves _process_tool_calls.
\*   answer    what input() gives: [eof, text]
\*   outcome   what session.call_tool gives: [kind, text], kind one of
\*             "ok", "timeout", "error"
\*   polls     the later answers of browser_get_result
Outcome(raised, class, content, prompted, invoked) ==
    [raised |-> raised, class |-> class, content |-> content,
     prompted |-> prompted, invoked |-> invoked]

CallProvider(n, outcome, polls, tool_timeout, prompted) ==
    IF outcome.kind = "timeout"
    THEN Outcome(FALSE, "timeout", TimeoutContent(n.name), prompted, TRUE)
    ELSE IF outcome.kind = "error"
    THEN Outcome(FALSE, "provider_error", ExceptionContent(n.name), prompted, TRUE)
    ELSE IF n.name.s = BrowserUse
    THEN LET w == MaybeWaitBrowserUseResult(outcome.text, polls, tool_timeout)
         IN  IF w.raised
             THEN Outcome(FALSE, "provider_error", ExceptionContent(n.name), prompted, TRUE)
             ELSE Outcome(FALSE, "ok", w.content, prompted, TRUE)
    ELSE Outcome(FALSE, "ok", outcome.text, prompted, TRUE)

DispatchOne(tc, catalog, registry, answer, outcome, polls, tool_timeout) ==
    LET n == NormalizeToolCall(tc)
        parsed == JsonLoads(n.arguments.s)
    IN  \* json.loads(None) raises TypeError, which line 565 does not catch
        IF ~n.arguments.some THEN Outcome(TRUE, "raised", <<>>, FALSE, FALSE)
        ELSE IF ~parsed.ok
        THEN Outcome(FALSE, "invalid_json", InvalidJsonContent(n.arguments.s), FALSE, FALSE)
        ELSE IF ~(n.name.some /\ n.name.s \in DOMAIN catalog)
        THEN Outcome(FALSE, "unknown_tool", UnknownToolContent(n.name), FALSE, FALSE)
        \* self.sessions[server_id] raises KeyError outside the try (line 586)
        ELSE IF catalog[n.name.s].server_id \notin registry
        THEN Outcome(TRUE, "raised", <<>>, FALSE, FALSE)
        ELSE IF n.name.s = ControlPump
        THEN \* tool_args.get raises AttributeError on a value that is no dict
             IF ~IsDict(parsed.val)
             THEN Outcome(FALSE, "provider_error", ExceptionContent(n.name), FALSE, FALSE)
             ELSE IF answer.eof
             THEN Outcome(FALSE, "provider_error", ExceptionContent(n.name), TRUE, FALSE)
             ELSE IF ~Affirmative(answer.text)
             THEN Outcome(FALSE, "declined", DeniedContent(n.name), TRUE, FALSE)
             ELSE CallProvider(n, outcome, polls, tool_timeout, TRUE)
        ELSE CallProvider(n, outcome, polls, tool_timeout, FALSE)

\* whether the loop body reaches input() / session.call_tool for tc
ReachesPrompt(tc, catalog, registry) ==
    DispatchOne(tc, catalog, registry, [eof |-> TRUE, text |-> <<>>],
                [kind |-> "error", text |-> <<>>], <<>>, 0).prompted
ReachesProvider(tc, catalog, registry) ==
    DispatchOne(tc, catalog, registry, [eof |-> FALSE, text |-> <<"y">>],
                [kind |-> "error", text |-> <<>>], <<>>, 0).invoked

----------------------------------------------------------------------------
(* Forced actions: _decide_forced_action and its tests (lines 710-809).    *)
(* A keyword test `any(k in text for k in [...])` holds when the text has  *)
(* a token whose text holds one of the keywords; the tokens are the        *)
(* keywords in pinyin.                                                     *)

SearchTokens == {"chayixia", "sousuo", "jiansuo", "chazhao", "dingyi", "shishenme",
                 "shenmeyisi", "sousuoyinqing"}
RefusalTokens == {"wufa", "buneng", "bukeyi"}
ExternalTokens == {"waibu", "sousuoyinqing", "wangluoqingqiu", "lianwang", "liulanqi"}
IrrigationTokens == {"guangai", "jiaoshui", "kaibeng", "xuyaoshui", "queshui"}
UserSensorTokens == {"chuanganqi", "turang", "turangshidu", "shuifen", "jiehe",
                     "turangshuifen"}
AskingSensorTokens == {"turangshidu", "chuanganqi", "turangshuifen"}

HasAny(text, tokens) == Range(text) \cap tokens # {}

\* _should_force_browser_search (lines 732-742)
ShouldForceBrowserSearch(user_query, assistant_text, catalog) ==
    /\ BrowserUse \in DOMAIN catalog
    /\ HasAny(user_query, SearchTokens)
    /\ HasAny(assistant_text, RefusalTokens)
    /\ HasAny(assistant_text, ExternalTokens)

\* _should_force_sensor_data (lines 783-797)
ShouldForceSensorData(user_query, assistant_text, catalog, snapshot) ==
    /\ HasAny(user_query, IrrigationTokens)
    /\ GetSensorData \in DOMAIN catalog
    /\ ~snapshot
    /\ HasAny(user_query, UserSensorTokens) \/ HasAny(assistant_text, AskingSensorTokens)

NoForcedAction == [type |-> "none", name |-> <<>>, arguments |-> JNull]

\* _decide_forced_action (lines 710-730)
DecideForcedAction(user_query, assistant_text, catalog, snapshot) ==
    IF ShouldForceBrowserSearch(user_query, assistant_text, catalog)
    THEN [type |-> "tool", name |-> BrowserUse,
          arguments |-> JObj(<< <<"url", JStr(<<"search_url">>)>>,
                                <<"action", JStr(<<"summarise">>)>> >>)]
    ELSE IF ShouldForceSensorData(user_query, assistant_text, catalog, snapshot)
    THEN [type |-> "tool", name |-> GetSensorData, arguments |-> JObj(<<>>)]
    ELSE NoForcedAction

\* a tool message of the turn holds the sensor's soil-moisture line
\* (_has_sensor_snapshot_since_last_user, lines 799-809)
HoldsSensorSnapshot(results) ==
    \E k \in 1..Len(results) : "turangshidu" \in Range(results[k].content)

----------------------------------------------------------------------------
(* Agent Loop: MCPClient.process_query (lines 401-549) *)

CycleCap == 10

\* tool_cycle_count >= 10: the cap trips one cycle early
CapExceededFromTen(count) == count >= CycleCap

\* tool_cycle_count > 10 (line 485)
CapExceeded(count) == count > CycleCap

\* a loop that reads the text for tool calls on every turn
TextConsideredAlways(has_tool_calls) == TRUE

\* _extract_text_tool_calls is called under `if not has_tool_calls` only
\* (lines 472-473)
TextConsidered(has_tool_calls) == ~has_tool_calls

\* a loop that asks for a forced action on every turn
ForcedConsideredAlways(has_tool_calls) == TRUE

\* _decide_forced_action is called in the else branch of `if has_tool_calls`
\* only (lines 480 and 512-514)
ForcedConsidered(has_tool_calls) == ~has_tool_calls

\* the two fixed replies (lines 487 and 510)
LoopMessage == <<"loop detected, execution stopped">>
FailureMessage == <<"tool call failed">>

\* a loop that ends the cycle on the first error entry
AnyError(results) == \E k \in 1..Len(results) : StartsWithError(results[k].content)

\* all_errors (lines 494-498)
AllErrors(results) == \A k \in 1..Len(results) : StartsWithError(results[k].content)

----------------------------------------------------------------------------
(* The state of a component that a specification does not exercise *)

ExtIdle == ext_text = <<>> /\ ext_pc = "idle" /\ extracted = <<>>
AggIdle == agg_stream = <<>> /\ agg_pos = 0 /\ agg = AggStart

NoPrompt == [id |-> 0, answer |-> [eof |-> TRUE, text |-> <<>>]]

\* the registries after __init__ (lines 94-100)
EmptyCatalog == [n \in {} |-> "none"]

\* the value list_tools stores for a tool (lines 368-372)
ToolInfo(server_id, description, input_schema) ==
    [server_id |-> server_id, description |-> description, input_schema |-> input_schema]

\* a catalog in which the first session to offer a name keeps it
PutToolFirstWins(catalog, name, info) ==
    [n \in DOMAIN catalog \cup {name} |->
        IF n \in DOMAIN catalog THEN catalog[n] ELSE info]

\* self.tools_map[tool.name] = {...} (line 368)
PutTool(catalog, name, info) ==
    [n \in DOMAIN catalog \cup {name} |-> IF n = name THEN info ELSE catalog[n]]

\* the for loop over response.tools (lines 367-373)
RECURSIVE RegisterTools(_, _, _)
RegisterTools(catalog, server_id, tools) ==
    IF tools = <<>> THEN catalog
    ELSE RegisterTools(PutTool(catalog, Head(tools).name,
                               ToolInfo(server_id, Head(tools).description,
                                        Head(tools).inputSchema)),
                       server_id, Tail(tools))

\* a refresh that keeps what the catalog held
KeptCatalog(catalog) == catalog

\* self.tools_map.clear() (line 356)
ClearedCatalog(catalog) == EmptyCatalog
RegIdle ==
    /\ sessions = {} /\ tools_map = EmptyCatalog
    /\ server_exit_stacks = {} /\ server_processes = {}
    /\ session_order = <<>>

NoLog == [id \in {} |-> 0]

\* no load_servers_from_config is under way
LoadIdle ==
    /\ servers = <<>> /\ load_pc = "idle" /\ load_pos = 0 /\ attempt = 0
    /\ successful_connections = 0 /\ attempts_made = NoLog /\ delays = NoLog
    /\ children_alive = NoLog /\ scopes_open = NoLog /\ attempt_trace = <<>>

\* no process_query is under way
LoopIdle ==
    /\ pc = "idle" /\ query = <<>> /\ tool_cycle_count = 0
    /\ tool_calls = <<>> /\ call_idx = 0 /\ tool_results = <<>>
    /\ is_intercepted_json = FALSE /\ forced_turn = FALSE
    /\ returned = <<>> /\ sensor_snapshot = FALSE
ObsIdle ==
    /\ requests = 0 /\ dispatched_cycles = 0 /\ premise_ok = TRUE
    /\ result_classes = <<>> /\ provider_calls = {} /\ prompts = {}
    /\ last_prompt = NoPrompt /\ model_calls = <<>>

\* the history after __init__ (line 101), no line read by chat_loop
HistIdle == conversation_history = <<>> /\ chat_turns = 0 /\ chat_requests = 0

\* no list_tools is under way
NoRefresh == [refresh |-> 0, stale |-> {}, met |-> <<>>]
ListIdle == list_pc = "idle" /\ list_pos = 0 /\ list_log = NoRefresh

\* no _maybe_wait_browser_use_result is under way
NoPoll == [kind |-> "none", status |-> "none", final |-> FALSE, raw |-> FALSE]
PollIdle ==
    /\ poll_pc = "idle" /\ poll_now = 0 /\ poll_deadline = 0
    /\ poll_latest = NoPoll /\ poll_log = <<>> /\ poll_text = <<>>

\* the components that have a specification of their own further down
CleanIdle ==
    /\ clean_pc = "idle" /\ clean_queue = <<>> /\ proc_exited = {} /\ term_trace = <<>>
    /\ clean_log = <<>>

NoDecision == [irrigate |-> FALSE, mm |-> 0, parsed |-> FALSE]
PhaseIdle ==
    /\ phase_pc = "idle" /\ phase_input = "none" /\ phase_turns = 0
    /\ pending_decision = <<>> /\ phase_decision = NoDecision
    /\ phase_reply = "none" /\ actuations = <<>>

\* call_tool has not been called
ApiIdle == direct_calls = <<>>

WebIdle == web_parked = <<>>
AdmitIdle ==
    init_pc = "none" /\ mcp_client_set = FALSE /\ mcp_initialized = FALSE /\ web_log = <<>>
\* the ids of the tasks, in the order of their creation
TaskIds == {1, 2}
SrvIdle ==
    /\ task_store = [id \in TaskIds |-> "absent"] /\ running_tasks = {}
    /\ task_pc = [id \in TaskIds |-> "none"] /\ cancel_calls = [id \in TaskIds |-> 0]
    /\ srv_log = <<>>
EdgeIdle == WebIdle /\ AdmitIdle /\ SrvIdle

SideIdle == CleanIdle /\ PhaseIdle /\ ApiIdle /\ EdgeIdle

OthersIdle == HistIdle /\ ListIdle /\ PollIdle /\ SideIdle

----------------------------------------------------------------------------
(* SpecExtract: one call of _extract_text_tool_calls on a text drawn from  *)
(* ExtTexts = opening fence, separator, body, separator, closing fence,    *)
(* tail.                                                                   *)

\* {"name":"x","arguments":{"a":1}} on one line
CallObject == <<"{", "name:", "'x'", ",", "arguments:", "{", "a:", "1", "}", "}">>
\* the same object spread over several lines
CallObjectLines ==
    <<"{", "NL", "SP", "name:", "SP", "'x'", ",", "NL", "SP", "arguments:", "SP",
      "{", "a:", "1", "}", "NL", "}">>

ExtOpenings == {<<>>, <<"FENCE">>, <<"FENCE", "json">>}
ExtSeparators == {<<>>, <<"SP">>, <<"NL">>}
ExtClosings == {<<>>, <<"FENCE">>}
ExtBodies ==
    { <<>>, <<"SP">>, <<"hello">>,
      <<"the", "SP", "arguments">>,
      CallObject, CallObjectLines,
      \* the arguments key written with an escape
      <<"{", "name:", "'x'", ",", "u_arguments:", "{", "a:", "1", "}", "}">>,
      \* no arguments key, an empty name, a string as arguments, a list
      <<"{", "name:", "'x'", "}">>,
      <<"{", "name:", "''", ",", "arguments:", "{", "}", "}">>,
      <<"{", "name:", "'x'", ",", "arguments:", "'{a:1}'", "}">>,
      <<"[", "{", "name:", "'x'", ",", "arguments:", "{", "}", "}", "]">> }
ExtTails == {<<>>, <<"NL">> \o CallObject, <<"NL", "hello">>}

ExtTexts ==
    { o \o s1 \o b \o s2 \o c \o t :
        o \in ExtOpenings, s1 \in ExtSeparators, b \in ExtBodies,
        s2 \in ExtSeparators, c \in ExtClosings, t \in ExtTails }

InitExtract ==
    /\ ext_text \in ExtTexts
    /\ ext_pc = "call"
    /\ extracted = <<>>
    /\ AggIdle /\ RegIdle /\ LoadIdle /\ LoopIdle /\ ObsIdle /\ OthersIdle

ExtractCall ==
    /\ ext_pc = "call"
    /\ extracted' = ExtractTextToolCalls(ext_text)
    /\ ext_pc' = "returned"
    /\ UNCHANGED <<ext_text, agg_vars, side_vars, reg_vars, load_vars, loop_vars, obs_vars,
                   hist_vars, list_vars, poll_vars>>

NextExtract == ExtractCall

SpecExtract == InitExtract /\ [][NextExtract]_vars

----------------------------------------------------------------------------
(* SpecAgg: the fold over the fragments of one response, a fragment per    *)
(* step.  The stream is drawn from the sequences of at most MaxFragments   *)
(* chunks.                                                                 *)

MaxFragments == 3

AggIndices == {0, 1}
AggNameChunks == {None, Some(<<"get_">>), Some(<<"data">>)}
AggArgChunks == {None, Some(<<>>), Some(<<"{">>), Some(<<"}">>)}

DeltaCall(i, n, a) == [index |-> i, id |-> i + 1, name |-> n, arguments |-> a]
Chunk(c, tcs) == [has_delta |-> TRUE, content |-> c, tool_calls |-> tcs]
\* a chunk without choices or without a delta (line 446)
EmptyChunk == [has_delta |-> FALSE, content |-> None, tool_calls |-> <<>>]
TextChunk == Chunk(Some(<<"hello">>), <<>>)

AggChunks ==
    {EmptyChunk, TextChunk}
    \cup { Chunk(None, <<DeltaCall(i, n, a)>>) :
             i \in AggIndices, n \in AggNameChunks, a \in AggArgChunks }

AggStreams ==
    UNION { [1..n -> AggChunks] : n \in 1..MaxFragments }

InitAgg ==
    /\ agg_stream \in AggStreams
    /\ agg_pos = 1
    /\ agg = AggStart
    /\ ExtIdle /\ RegIdle /\ LoadIdle /\ LoopIdle /\ ObsIdle /\ OthersIdle

\* one iteration of the for loop (line 445)
AggStep ==
    /\ agg_pos >= 1
    /\ agg_pos <= Len(agg_stream)
    /\ ~agg.raised
    /\ agg' = AggChunk(agg, agg_stream[agg_pos])
    /\ agg_pos' = agg_pos + 1
    /\ UNCHANGED <<agg_stream, ext_vars, side_vars, reg_vars, load_vars, loop_vars, obs_vars,
                   hist_vars, list_vars, poll_vars>>

NextAgg == AggStep

SpecAgg == InitAgg /\ [][NextAgg]_vars

AggFinished == agg_pos >= 1 /\ (agg.raised \/ agg_pos > Len(agg_stream))


----------------------------------------------------------------------------
(* SpecQuery: one call of process_query.  The model's responses, the      *)
(* answers at the confirmation prompt and the providers' results are       *)
(* drawn from the families below.                                          *)

MaxRequests == 12

\* the catalog list_tools builds from the sessions (lines 349-385)
IrrigationTools == {ControlPump, GetSensorData}
BrowserTools == {BrowserUse, BrowserGetResult}
CatalogOf(ids) ==
    [n \in (IF "irrigation" \in ids THEN IrrigationTools ELSE {})
           \cup (IF "browser" \in ids THEN BrowserTools ELSE {}) |->
        ToolInfo(IF n \in IrrigationTools THEN "irrigation" ELSE "browser",
                 <<"what", "it", "does">>, <<"schema">>)]
QueryRegistries == {<<"irrigation", "browser">>, <<"irrigation">>}

Queries ==
    { <<"hello">>, <<"sousuo", "x">>, <<"guangai", "chuanganqi">>, <<"guangai">> }

EmptyArgs == <<"{", "}">>
PumpArgs == <<"{", "turn_on:", "SP", "true", "}">>
SearchArgs == <<"{", "url:", "SP", "'search_url'", ",", "SP", "action:", "SP", "'summarise'", "}">>
NoTool == <<"no_", "tool">>
NativeCall(i, n, a) == Chunk(None, <<DeltaCall(i, Some(n), Some(a))>>)
SensorCallText == <<"{", "name:", "'get_sensor_data'", ",", "arguments:", "{", "}", "}">>

QueryStreams ==
    { \* native tool calls
      <<NativeCall(0, GetSensorData, EmptyArgs)>>,
      <<NativeCall(0, GetSensorData, <<>>), Chunk(None, <<DeltaCall(0, None, Some(EmptyArgs))>>)>>,
      <<NativeCall(0, ControlPump, PumpArgs)>>,
      <<NativeCall(0, GetSensorData, EmptyArgs), NativeCall(1, ControlPump, PumpArgs)>>,
      <<NativeCall(0, ControlPump, PumpArgs), NativeCall(1, ControlPump, PumpArgs)>>,
      <<NativeCall(0, BrowserUse, SearchArgs)>>,
      \* a tool that no provider offers, alone and beside a known one
      <<NativeCall(0, NoTool, EmptyArgs)>>,
      <<NativeCall(0, NoTool, EmptyArgs), NativeCall(1, GetSensorData, EmptyArgs)>>,
      \* arguments that are no JSON
      <<NativeCall(0, GetSensorData, <<"{">>)>>,
      <<NativeCall(0, ControlPump, <<"{">>), NativeCall(1, NoTool, <<"{", "turn_on:">>),
        NativeCall(2, GetSensorData, EmptyArgs)>>,
      \* a call whose only fragment has no argument chunk
      <<Chunk(None, <<DeltaCall(0, Some(GetSensorData), None)>>)>>,
      \* a later fragment of one index without an argument chunk
      <<NativeCall(0, GetSensorData, <<>>), Chunk(None, <<DeltaCall(0, None, None)>>)>>,
      \* text only: an answer, a refusal to search, a question about the soil
      <<TextChunk>>,
      <<Chunk(Some(<<"wufa", "lianwang">>), <<>>)>>,
      <<Chunk(Some(<<"turangshidu">>), <<>>)>>,
      \* a tool call written as text inside a fence
      <<Chunk(Some(<<"FENCE", "json", "SP">>), <<>>),
        Chunk(Some(SensorCallText \o <<"NL", "FENCE">>), <<>>)>> }

NoAnswer == [eof |-> TRUE, text |-> <<>>]
Answers ==
    {NoAnswer} \cup
    { [eof |-> FALSE, text |-> t] :
        t \in { <<"y">>, <<"SP", "Y", "E", "S", "NL">>, <<"n">>, <<>>, <<"o", "k">> } }

NoOutcome == [kind |-> "error", text |-> <<>>]
Ok(text) == [kind |-> "ok", text |-> text]
TaskHandle == <<"{", "task_id:", "SP", "'t1'", ",", "SP", "status:", "SP", "'pending'", "}">>
SensorReading == <<"turangshidu", "35%">>
Outcomes(name) ==
    CASE name = GetSensorData ->
           {Ok(SensorReading), Ok(<<"sensor", "offline">>), [kind |-> "timeout", text |-> <<>>],
            NoOutcome}
      [] name = ControlPump -> {Ok(<<"pump", "on">>), NoOutcome}
      [] name = BrowserUse ->
           {Ok(TaskHandle), Ok(<<"page", "text">>), [kind |-> "timeout", text |-> <<>>]}
      [] OTHER -> {Ok(<<"{", "status:", "SP", "'completed'", "}">>)}

Poll(kind, status, final, raw) ==
    [kind |-> kind, status |-> status, final |-> final, raw |-> raw]
PollRuns ==
    { <<>>,
      <<Poll("ok", "completed", TRUE, FALSE)>>,
      <<RunningPoll, Poll("ok", "completed", FALSE, TRUE)>>,
      <<Poll("ok", "failed", FALSE, FALSE)>>,
      <<Poll("error", "running", FALSE, FALSE)>> }

AnswersFor(tc) == IF ReachesPrompt(tc, tools_map, sessions) THEN Answers ELSE {NoAnswer}
OutcomesFor(tc) ==
    IF ReachesProvider(tc, tools_map, sessions)
    THEN Outcomes(NormalizeToolCall(tc).name.s) ELSE {NoOutcome}
PollsFor(tc, outcome) ==
    IF ReachesProvider(tc, tools_map, sessions) /\ outcome = Ok(TaskHandle)
    THEN PollRuns ELSE {<<>>}

InitQuery ==
    /\ session_order \in QueryRegistries
    /\ sessions = Range(session_order)
    /\ tools_map = CatalogOf(sessions)
    /\ server_exit_stacks = sessions
    /\ server_processes = {}
    /\ LoadIdle /\ LoopIdle /\ ObsIdle /\ ExtIdle /\ AggIdle /\ OthersIdle

\* lines 401-418: the query enters the history, the loop's locals are set
ProcessQueryStart ==
    /\ pc = "idle"
    /\ \E q \in Queries : query' = q
    /\ pc' = "request"
    /\ tool_cycle_count' = 0
    /\ sensor_snapshot' = FALSE
    /\ UNCHANGED <<tool_calls, call_idx, tool_results, is_intercepted_json, forced_turn,
                   returned, obs_vars, reg_vars, load_vars, ext_vars, agg_vars, side_vars,
                   list_vars, poll_vars>>

\* the entry classes that are no error of the call
NonErrorClasses == {"ok", "declined"}

\* one pass of the while loop from the request (line 420) to the branch
\* taken on the response: the cap (484-487), the start of a dispatch (491
\* or 526), or the return of the text (549)
ModelRequestOf(streams) ==
    /\ pc = "request"
    /\ requests < MaxRequests
    /\ \E stream \in streams :
       \E a \in {Aggregate(stream)} :
       \E ex \in {IF a.raised \/ ~TextConsidered(a.has_tool_calls) THEN <<>>
                  ELSE ExtractTextToolCalls(a.json_buffer)} :
       \E forced \in {DecideForcedAction(query, a.final_content, tools_map, sensor_snapshot)} :
       \E has \in {a.has_tool_calls \/ ex # <<>>} :
       \E capped \in {has /\ CapExceeded(tool_cycle_count + 1)} :
       \E forced_now \in {~a.raised /\ ForcedConsidered(has) /\ forced.type = "tool"} :
       \E dispatching \in {~a.raised /\ (forced_now \/ (has /\ ~capped))} :
             /\ requests' = requests + 1
             /\ premise_ok' = (premise_ok /\ ~a.raised /\ has)
             /\ tool_cycle_count' = IF ~a.raised /\ has THEN tool_cycle_count + 1
                                    ELSE tool_cycle_count
             /\ is_intercepted_json' = (~a.raised /\ ex # <<>>)
             /\ forced_turn' = forced_now
             /\ pc' = IF a.raised THEN "raised"
                      ELSE IF dispatching THEN "dispatch" ELSE "done"
             /\ returned' = IF a.raised \/ dispatching THEN returned
                            ELSE IF capped THEN LoopMessage ELSE a.final_content
             /\ tool_calls' = IF a.raised THEN tool_calls
                              ELSE IF forced_now
                              THEN << [id |-> 1, name |-> forced.name,
                                       arguments |-> JsonDumps(forced.arguments)] >>
                              ELSE IF ex # <<>> THEN ex
                              ELSE IF has THEN a.tool_calls
                              ELSE tool_calls
             /\ model_calls' = IF ~dispatching THEN model_calls
                               ELSE IF ex # <<>> THEN ex ELSE a.tool_calls
             /\ call_idx' = IF dispatching THEN 1 ELSE call_idx
             /\ tool_results' = IF dispatching THEN <<>> ELSE tool_results
             /\ result_classes' = IF dispatching THEN <<>> ELSE result_classes
             /\ provider_calls' = IF dispatching THEN {} ELSE provider_calls
             /\ prompts' = IF dispatching THEN {} ELSE prompts
             /\ last_prompt' = IF dispatching THEN NoPrompt ELSE last_prompt
             /\ dispatched_cycles' = IF dispatching THEN dispatched_cycles + 1
                                     ELSE dispatched_cycles
    /\ UNCHANGED <<query, sensor_snapshot, reg_vars, load_vars, ext_vars, agg_vars, side_vars,
                   list_vars, poll_vars>>

ModelRequest == ModelRequestOf(QueryStreams)

\* the request itself fails: chat.completions.create, or the iteration of
\* the stream it returned, raises (connection, status or timeout error of
\* the API). Lines 420-471 stand in no try block, so the exception leaves
\* process_query
RequestRaises ==
    /\ pc = "request"
    /\ requests < MaxRequests
    /\ requests' = requests + 1
    /\ premise_ok' = FALSE
    /\ pc' = "raised"
    /\ UNCHANGED <<query, tool_cycle_count, tool_calls, call_idx, tool_results,
                   is_intercepted_json, forced_turn, returned, sensor_snapshot,
                   dispatched_cycles, result_classes, provider_calls, prompts,
                   last_prompt, model_calls, reg_vars, load_vars, ext_vars, agg_vars, side_vars,
                   list_vars, poll_vars>>

\* one iteration of the for loop of _process_tool_calls (lines 560-639)
DispatchCall ==
    /\ pc = "dispatch"
    /\ call_idx <= Len(tool_calls)
    /\ \E tc \in {tool_calls[call_idx]} :
       \E id \in {NormalizeToolCall(tc).id} :
       \E answer \in AnswersFor(tc), outcome \in OutcomesFor(tc) :
       \E polls \in PollsFor(tc, outcome) :
       \E r \in {DispatchOne(tc, tools_map, sessions, answer, outcome, polls,
                             DefaultToolTimeout)} :
             /\ pc' = IF r.raised THEN "raised" ELSE "dispatch"
             /\ call_idx' = IF r.raised THEN call_idx ELSE call_idx + 1
             /\ tool_results' =
                  IF r.raised THEN tool_results
                  ELSE Append(tool_results,
                              [role |-> "tool", content |-> r.content, tool_call_id |-> id])
             /\ result_classes' = IF r.raised THEN result_classes
                                  ELSE Append(result_classes, r.class)
             /\ provider_calls' = IF r.invoked THEN provider_calls \cup {id}
                                  ELSE provider_calls
             /\ prompts' = IF r.prompted THEN prompts \cup {id} ELSE prompts
             /\ last_prompt' = IF r.prompted THEN [id |-> id, answer |-> answer]
                               ELSE last_prompt
    /\ UNCHANGED <<query, tool_cycle_count, tool_calls, is_intercepted_json, forced_turn,
                   returned, sensor_snapshot, requests, dispatched_cycles, premise_ok,
                   model_calls, reg_vars, load_vars, ext_vars, agg_vars, side_vars,
                   list_vars, poll_vars>>

\* after _process_tool_calls returned: lines 493-510, or 533-534 on a
\* forced turn, which goes back to the request whatever the results are.
\* Going back to the request, the turn's locals are dead (the next pass
\* assigns them before it reads them) and are given their first values.
EndCycle ==
    /\ pc = "dispatch"
    /\ call_idx > Len(tool_calls)
    /\ sensor_snapshot' = (sensor_snapshot \/ HoldsSensorSnapshot(tool_results))
    /\ premise_ok' = (premise_ok /\ \E k \in 1..Len(result_classes) :
                                       result_classes[k] \in NonErrorClasses)
    /\ IF forced_turn \/ ~AllErrors(tool_results)
       THEN /\ pc' = "request"
            /\ tool_calls' = <<>> /\ call_idx' = 0 /\ tool_results' = <<>>
            /\ is_intercepted_json' = FALSE /\ forced_turn' = FALSE
            /\ result_classes' = <<>> /\ provider_calls' = {} /\ prompts' = {}
            /\ last_prompt' = NoPrompt /\ model_calls' = <<>>
            /\ UNCHANGED returned
       ELSE /\ pc' = "done"
            /\ returned' = FailureMessage
            /\ UNCHANGED <<tool_calls, call_idx, tool_results, is_intercepted_json,
                           forced_turn, result_classes, provider_calls, prompts,
                           last_prompt, model_calls>>
    /\ UNCHANGED <<query, tool_cycle_count, requests, dispatched_cycles,
                   reg_vars, load_vars, ext_vars, agg_vars, side_vars,
                   list_vars, poll_vars>>

\* The actions above are the steps of process_query on its locals and on the
\* observations. SpecQuery follows one call of it and leaves out what the
\* steps append to the history, of which it keeps sensor_snapshot only;
\* SpecChat further down follows the history over several calls.
LoopStart == ProcessQueryStart /\ UNCHANGED hist_vars
LoopRequest == ModelRequest /\ UNCHANGED hist_vars
LoopRequestRaises == RequestRaises /\ UNCHANGED hist_vars
LoopDispatch == DispatchCall /\ UNCHANGED hist_vars
LoopEndCycle == EndCycle /\ UNCHANGED hist_vars

NextQuery ==
    LoopStart \/ LoopRequest \/ LoopRequestRaises \/ LoopDispatch \/ LoopEndCycle

SpecQuery == InitQuery /\ [][NextQuery]_vars

----------------------------------------------------------------------------
(* SpecLoad: one call of load_servers_from_config (lines 123-180) on a     *)
(* client fresh from __init__, with connect_to_sse_server (206-272) and    *)
(* connect_to_local_server (274-323).  A descriptor has a url or not, a    *)
(* command or not, and max_retries or None; what each attempt meets (the   *)
(* probe of the endpoint, the spawn, the connection) is chosen per         *)
(* attempt.                                                                *)

MaxServers == 2
MaxRetry == 4
DefaultMaxRetries == 3

ServerNames == <<"irrigation", "browser", "weather", "extra">>

NoRetries == [some |-> FALSE, n |-> 0]
RetryChoices == {NoRetries} \cup {[some |-> TRUE, n |-> n] : n \in {0, 1, MaxRetry}}

Descriptors(id) ==
    { [id |-> id, url |-> u, command |-> c, max_retries |-> r] :
        u \in BOOLEAN, c \in BOOLEAN, r \in RetryChoices }

Configs ==
    UNION { { cfg \in [1..n -> UNION {Descriptors(ServerNames[k]) : k \in 1..n}] :
                \A k \in 1..n : cfg[k].id = ServerNames[k] } : n \in 0..MaxServers }

\* max_retries of the descriptor, or self.max_retries (lines 217-218, 296-297)
EffectiveRetries(d) == IF d.max_retries.some THEN d.max_retries.n ELSE DefaultMaxRetries

\* a descriptor that is always taken to a connect
MissingLaunchTargetIgnored(d) == FALSE

\* not url (line 150) and not command (line 161): the for loop logs and
\* continues (lines 162-163)
MissingLaunchTarget(d) == ~d.url /\ ~d.command

\* every connect is counted, the failed ones too
CountedAlways(count, success) == count + 1

\* if success: successful_connections += 1 (lines 172-173)
Counted(count, success) == IF success THEN count + 1 ELSE count

\* a constant wait of one second between attempts
RetryDelayConstant(n) == 1

\* wait_time = 2 ** attempt (lines 266 and 316)
RetryDelay(n) == 2 ^ n

InitLoad ==
    /\ servers \in Configs
    /\ load_pc = "idle" /\ load_pos = 0 /\ attempt = 0
    /\ successful_connections = 0
    /\ attempts_made = [k \in 1..Len(servers) |-> 0]
    /\ delays = [k \in 1..Len(servers) |-> <<>>]
    /\ children_alive = [k \in 1..Len(servers) |-> 0]
    /\ scopes_open = [k \in 1..Len(servers) |-> 0]
    /\ attempt_trace = <<>>
    /\ RegIdle /\ LoopIdle /\ ObsIdle /\ ExtIdle /\ AggIdle /\ OthersIdle

\* lines 133-137
LoadStart ==
    /\ load_pc = "idle"
    /\ load_pc' = "next"
    /\ load_pos' = 1
    /\ successful_connections' = 0
    /\ UNCHANGED <<servers, attempt, attempts_made, delays, children_alive, scopes_open,
                   attempt_trace, reg_vars, loop_vars, obs_vars, ext_vars, agg_vars, side_vars,
                   hist_vars, list_vars, poll_vars>>

\* the head of the for loop (139-163) up to the first attempt of the connect
\* it calls (its lines 215-225 or 294-302)
LoadDescriptor ==
    /\ load_pc = "next"
    /\ load_pos <= Len(servers)
    /\ \E d \in {servers[load_pos]} :
         IF MissingLaunchTarget(d)
         THEN \* neither url nor command: continue
              /\ load_pos' = load_pos + 1
              /\ UNCHANGED <<load_pc, attempt, successful_connections>>
         ELSE IF d.id \in sessions
         THEN \* connected already: the connect returns True
              /\ load_pos' = load_pos + 1
              /\ successful_connections' = Counted(successful_connections, TRUE)
              /\ UNCHANGED <<load_pc, attempt>>
         ELSE IF EffectiveRetries(d) <= 0
         THEN \* range(max_retries) is empty: the connect returns False
              /\ load_pos' = load_pos + 1
              /\ successful_connections' = Counted(successful_connections, FALSE)
              /\ UNCHANGED <<load_pc, attempt>>
         ELSE /\ load_pc' = "attempt"
              /\ attempt' = 0
              /\ UNCHANGED <<load_pos, successful_connections>>
    /\ attempt_trace' = <<>>
    /\ UNCHANGED <<servers, attempts_made, delays, children_alive, scopes_open, reg_vars,
                   loop_vars, obs_vars, ext_vars, agg_vars, side_vars,
                   hist_vars, list_vars, poll_vars>>

\* what follows a failed attempt (lines 264-272 and 314-323): the sleep and
\* the next attempt, or the return of False to the for loop
AfterFailedAttempt(d) ==
    /\ attempts_made' = [attempts_made EXCEPT ![load_pos] = @ + 1]
    /\ IF attempt < EffectiveRetries(d) - 1
       THEN /\ delays' = [delays EXCEPT ![load_pos] = Append(@, RetryDelay(attempt))]
            /\ attempt' = attempt + 1
            /\ load_pc' = "attempt"
            /\ UNCHANGED <<load_pos, successful_connections>>
       ELSE /\ load_pc' = "next"
            /\ load_pos' = load_pos + 1
            /\ successful_connections' = Counted(successful_connections, FALSE)
            /\ UNCHANGED <<delays, attempt>>

\* what follows a successful attempt: the connect returns True (line 253 or
\* 308) and the for loop counts it (lines 172-173)
AfterConnected ==
    /\ attempts_made' = [attempts_made EXCEPT ![load_pos] = @ + 1]
    /\ successful_connections' = Counted(successful_connections, TRUE)
    /\ load_pc' = "next"
    /\ load_pos' = load_pos + 1
    /\ UNCHANGED <<delays, attempt>>

ProbeResults == {"alive", "dead", "raised"}
SpawnResults == {"started", "spawn_failure"}
ConnectResults == {"success", "timeout", "error"}

\* a cleanup that forgets the handle and leaves the child running
AfterTerminateSkipped(n) == n

\* the children left of n when _terminate_process has returned (lines
\* 194-204: terminate, and kill when the wait of 5 seconds fails)
AfterTerminate(n) == n - 1

\* a release that leaves the handle of the attempt in the registry
ProcessKept(processes, server_id) == processes

\* self._server_processes.pop(server_id, None) (line 264)
ProcessPopped(processes, server_id) == processes \ {server_id}

\* the attempt spawned a child: process is not None (line 261)
SpawnedInAttempt == "spawn" \in Range(attempt_trace)

\* the head of one pass of the retry loop of connect_to_sse_server (lines
\* 225-247): the probe, the spawn and its sleep, and the transport and the
\* session entered into attempt_stack. A spawn that raises goes to the
\* handlers and the release of lines 254-269 at once
SseAttempt ==
    /\ load_pc = "attempt"
    /\ servers[load_pos].url
    /\ \E d \in {servers[load_pos]} :
       \E probe \in ProbeResults, spawn \in SpawnResults :
       \E should_start \in {d.command /\ probe # "alive"} :
         IF should_start /\ spawn = "spawn_failure"
         THEN /\ attempt_trace' = <<"probe", probe, "spawn_failure", "close">>
              /\ UNCHANGED <<reg_vars, children_alive, scopes_open>>
              /\ AfterFailedAttempt(d)
         ELSE /\ attempt_trace' = <<"probe", probe>>
                     \o (IF should_start THEN <<"spawn", "sleep">> ELSE <<>>)
                     \o <<"open">>
              /\ server_processes' = IF should_start THEN server_processes \cup {d.id}
                                     ELSE server_processes
              /\ children_alive' = IF should_start
                                   THEN [children_alive EXCEPT ![load_pos] = @ + 1]
                                   ELSE children_alive
              /\ scopes_open' = [scopes_open EXCEPT ![load_pos] = @ + 1]
              /\ load_pc' = "handshake"
              /\ UNCHANGED <<sessions, server_exit_stacks, session_order, attempt,
                             load_pos, successful_connections, attempts_made, delays>>
    /\ UNCHANGED <<servers, tools_map, loop_vars, obs_vars, ext_vars, agg_vars, side_vars,
                   hist_vars, list_vars, poll_vars>>

\* the rest of the pass (lines 248-269): session.initialize() under the
\* timeout, then the registration, or the handlers and the release
SseHandshake ==
    /\ load_pc = "handshake"
    /\ \E d \in {servers[load_pos]} :
       \E conn \in ConnectResults :
         IF conn = "success"
         THEN /\ attempt_trace' = attempt_trace \o <<"initialize", "register">>
              /\ sessions' = sessions \cup {d.id}
              /\ session_order' = Append(session_order, d.id)
              /\ server_exit_stacks' = server_exit_stacks \cup {d.id}
              /\ scopes_open' = [scopes_open EXCEPT ![load_pos] = @ - 1]
              /\ UNCHANGED <<server_processes, children_alive>>
              /\ AfterConnected
         ELSE \* attempt_stack.aclose(), then the process of the attempt is
              \* terminated and forgotten
              /\ attempt_trace' = attempt_trace \o <<conn, "close">>
                     \o (IF SpawnedInAttempt THEN <<"terminate", "pop">> ELSE <<>>)
              /\ scopes_open' = [scopes_open EXCEPT ![load_pos] = @ - 1]
              /\ children_alive' = IF SpawnedInAttempt
                                   THEN [children_alive EXCEPT
                                           ![load_pos] = AfterTerminate(@)]
                                   ELSE children_alive
              /\ server_processes' = IF SpawnedInAttempt
                                     THEN ProcessPopped(server_processes, d.id)
                                     ELSE server_processes
              /\ UNCHANGED <<sessions, server_exit_stacks, session_order>>
              /\ AfterFailedAttempt(d)
    /\ UNCHANGED <<servers, tools_map, loop_vars, obs_vars, ext_vars, agg_vars, side_vars,
                   hist_vars, list_vars, poll_vars>>

\* one pass of the retry loop of connect_to_local_server (lines 302-320),
\* _do_connect (325-347) included: the child of stdio_client lives inside
\* attempt_stack and ends when _do_connect closes it (lines 341-344)
LocalAttempt ==
    /\ load_pc = "attempt"
    /\ ~servers[load_pos].url
    /\ \E d \in {servers[load_pos]} :
       \E conn \in ConnectResults \cup {"spawn_failure"} :
         IF conn = "success"
         THEN /\ attempt_trace' = <<"open", "initialize", "register">>
              /\ sessions' = sessions \cup {d.id}
              /\ session_order' = Append(session_order, d.id)
              /\ server_exit_stacks' = server_exit_stacks \cup {d.id}
              /\ children_alive' = [children_alive EXCEPT ![load_pos] = @ + 1]
              /\ AfterConnected
         ELSE /\ attempt_trace' = <<"open", conn, "close">>
              /\ UNCHANGED <<sessions, server_exit_stacks, session_order, children_alive>>
              /\ AfterFailedAttempt(d)
    /\ UNCHANGED <<servers, tools_map, server_processes, scopes_open, loop_vars,
                   obs_vars, ext_vars, agg_vars, side_vars,
                   hist_vars, list_vars, poll_vars>>

\* the for loop is over: the report of lines 175-180
LoadFinish ==
    /\ load_pc = "next"
    /\ load_pos > Len(servers)
    /\ load_pc' = "done"
    /\ UNCHANGED <<servers, load_pos, attempt, successful_connections, attempts_made,
                   delays, children_alive, scopes_open, attempt_trace, reg_vars,
                   loop_vars, obs_vars, ext_vars, agg_vars, side_vars,
                   hist_vars, list_vars, poll_vars>>

NextLoad ==
    LoadStart \/ LoadDescriptor \/ SseAttempt \/ SseHandshake \/ LocalAttempt \/ LoadFinish

SpecLoad == InitLoad /\ [][NextLoad]_vars

\* the load is one coroutine that runs on while it can take a step
SpecLoadFair == SpecLoad /\ WF_vars(NextLoad)

----------------------------------------------------------------------------
(* Claims about the Response Aggregator (SpecAgg) *)

\* the tool-call deltas of a stream in arrival order
StreamDeltas(stream) ==
    Flatten([k \in 1..Len(stream) |->
                IF stream[k].has_delta THEN stream[k].tool_calls ELSE <<>>])

\* the deltas of the stream all bear one index, there is at least one, and
\* each of them carries a name chunk or an argument chunk
OneIndexStream(stream) ==
    LET ds == StreamDeltas(stream)
    IN  /\ ds # <<>>
        /\ \A k \in 1..Len(ds) :
              /\ ds[k].index = ds[1].index
              /\ ds[k].name.some \/ ds[k].arguments.some

ConcatNames(ds) == Flatten([k \in 1..Len(ds) |-> OrEmpty(ds[k].name)])
ConcatArguments(ds) == Flatten([k \in 1..Len(ds) |-> OrEmpty(ds[k].arguments)])

\* C6: when the deltas of one index arrive split across N >= 1 fragments,
\* interleaved with text-only fragments, the fold ends with exactly one
\* record, whose name is the concatenation of the name chunks and whose
\* argument string is the concatenation of the argument chunks, in arrival
\* order.
C6_OneIndexOneRecord ==
    (AggFinished /\ OneIndexStream(agg_stream)) =>
        /\ ~agg.raised
        /\ Len(agg.tool_calls) = 1
        /\ OrEmpty(agg.tool_calls[1].name) = ConcatNames(StreamDeltas(agg_stream))
        /\ OrEmpty(agg.tool_calls[1].arguments) = ConcatArguments(StreamDeltas(agg_stream))

\* What the fold does guarantee: the same, for the streams in which every
\* delta carries an argument string (possibly the empty one).
AggEveryDeltaHasArguments(stream) ==
    \A k \in 1..Len(StreamDeltas(stream)) : StreamDeltas(stream)[k].arguments.some

AggOneRecordWhenArgumentsPresent ==
    (AggFinished /\ OneIndexStream(agg_stream) /\ AggEveryDeltaHasArguments(agg_stream)) =>
        /\ ~agg.raised
        /\ Len(agg.tool_calls) = 1
        /\ OrEmpty(agg.tool_calls[1].name) = ConcatNames(StreamDeltas(agg_stream))
        /\ OrEmpty(agg.tool_calls[1].arguments) = ConcatArguments(StreamDeltas(agg_stream))

----------------------------------------------------------------------------
(* Claims about the Textual Intent Extractor (SpecExtract) *)

\* the texts that are one fenced code block holding the one call object: on
\* the fence line, on a line of its own, or spread over several lines
FencedCallTexts ==
    { o \o s1 \o b \o s2 \o <<"FENCE">> :
        o \in {<<"FENCE">>, <<"FENCE", "json">>}, s1 \in ExtSeparators,
        b \in {CallObject, CallObjectLines}, s2 \in ExtSeparators }

\* {"a":1} as json.loads gives it
ArgsA1 == [ok |-> TRUE, val |-> JObj(<< <<"a", JAtom("num", "1")>> >>)]

\* C7: applied to a single fenced code block that holds one well-formed
\* {"name":"x","arguments":{"a":1}} object, whatever its layout, the
\* extractor returns exactly one record, with name x and an argument string
\* that parses back to {"a":1}.
C7_FencedBlockOneRecord ==
    (ext_pc = "returned" /\ ext_text \in FencedCallTexts) =>
        /\ Len(extracted) = 1
        /\ extracted[1].name = <<"x">>
        /\ JsonLoads(extracted[1].arguments) = ArgsA1

\* What the extractor does guarantee on these texts: at least one record,
\* every record has name x and arguments that parse back to {"a":1}, and
\* there is exactly one unless the object stands alone on a line of its own.
ExtFencedBlockRecords ==
    (ext_pc = "returned" /\ ext_text \in FencedCallTexts) =>
        /\ Len(extracted) \in {1, 2}
        /\ \A k \in 1..Len(extracted) :
              /\ extracted[k].name = <<"x">>
              /\ JsonLoads(extracted[k].arguments) = ArgsA1
        /\ Len(extracted) = 2 <=>
              \E o \in {<<"FENCE">>, <<"FENCE", "json">>} :
                  ext_text = o \o <<"NL">> \o CallObject \o <<"NL", "FENCE">>

\* C8: for every text that does not contain the word arguments (the empty
\* and the blank text included), the extractor returns the empty list,
\* whatever fenced blocks or JSON objects the text holds.
C8_NoArgumentsNoCalls ==
    (ext_pc = "returned" /\ ~ContainsArguments(ext_text)) => extracted = <<>>

\* C8 witness: a fenced call object whose arguments key is written with an
\* escape was searched and gave no record.
C8_Witness ==
    /\ ext_pc = "returned"
    /\ ~ContainsArguments(ext_text)
    /\ "u_arguments:" \in Range(ext_text)
    /\ "FENCE" \in Range(ext_text)
    /\ extracted = <<>>

\* the candidates of a searched text, strategy by strategy: those of the
\* fenced blocks, then those of the line scan, and the whole text parsed
\* when there is none (lines 670-697)
ExtCandidates(buf) ==
    IF ExtractBlocks(FindCodeBlocks(buf, 1)) \o ScanLines(SplitLines(buf)) = <<>>
    THEN WholeText(buf)
    ELSE ExtractBlocks(FindCodeBlocks(buf, 1)) \o ScanLines(SplitLines(buf))

\* the candidates with a name that is not empty
NamedCandidates(cands) == SelectSeq(cands, LAMBDA c : ~Falsy(c.name))

\* the argument string of a candidate (line 705)
CandidateArguments(c) ==
    IF c.arguments.t \in {"obj", "arr"} THEN JsonDumps(c.arguments) ELSE PyStr(c.arguments)

\* C23: every candidate matched by a strategy (fenced block, line scan,
\* whole-text parse) that has a non-empty name becomes a record of its own
\* with a fresh id; the records of one extraction have pairwise distinct
\* ids, also when two carry the same name and arguments; nothing is
\* de-duplicated.
C23_DuplicatesKept ==
    (ext_pc = "returned" /\ PreFilter(Strip(ext_text))) =>
        \A named \in {NamedCandidates(ExtCandidates(Strip(ext_text)))} :
            /\ Len(extracted) = Len(named)
            /\ \A k \in 1..Len(named) :
                  /\ extracted[k].name = PyStr(named[k].name)
                  /\ extracted[k].arguments = CandidateArguments(named[k])
            /\ \A j, k \in 1..Len(extracted) : j # k => extracted[j].id # extracted[k].id

\* C23 witness: a call object alone on a line inside a fenced block was
\* matched by the block strategy and by the line scan, and a second call
\* object on a line after the block by the line scan: three records, the
\* first two with the same name and arguments and different ids.
C23_Witness ==
    /\ ext_pc = "returned"
    /\ ext_text = <<"FENCE", "json", "NL">> \o CallObject \o <<"NL", "FENCE", "NL">> \o CallObject
    /\ Len(extracted) = 3
    /\ extracted[1].name = extracted[2].name
    /\ extracted[1].arguments = extracted[2].arguments
    /\ extracted[1].id # extracted[2].id

----------------------------------------------------------------------------
(* Claims about the Tool Dispatcher and the Agent Loop (SpecQuery) *)

\* the answer, trimmed and lower-cased, is neither y nor yes
NotYes(answer) ==
    ~answer.eof /\ Lower(Strip(answer.text)) \notin {<<"y">>, <<"y", "e", "s">>}

\* the entries of the turn written for the call id
EntriesOf(id) == {k \in 1..Len(tool_results) : tool_results[k].tool_call_id = id}

\* C1: when the answer to the confirmation prompt of a control_pump call,
\* trimmed and lower-cased, is neither y nor yes, the provider's call_tool is
\* not invoked for that call and the call's tool-result entry says that the
\* user declined, wherever the call stands in the turn and whatever calls
\* came before it.
C1_DeclinedPumpNeverInvoked ==
    (last_prompt.id # 0 /\ NotYes(last_prompt.answer)) =>
        /\ last_prompt.id \notin provider_calls
        /\ EntriesOf(last_prompt.id) # {}
        /\ \A k \in EntriesOf(last_prompt.id) :
              tool_results[k].content = DeniedContent(Some(ControlPump))

\* C1 witness: the second call of a turn is control_pump, the first one went
\* to its provider, and the empty answer at the prompt declined the second.
C1_Witness ==
    /\ pc = "dispatch"
    /\ result_classes = <<"ok", "declined">>
    /\ provider_calls = {1}
    /\ last_prompt = [id |-> 2, answer |-> [eof |-> FALSE, text |-> <<>>]]

\* C2: one user request makes at most cap + 1 = 11 model requests, the
\* turns with a forced tool call included.
C2_AtMostCapPlusOneRequests == requests <= CycleCap + 1

\* the state part of C3
CycleCapReached ==
    /\ (pc = "done" /\ premise_ok) =>
          /\ returned = LoopMessage
          /\ dispatched_cycles = CycleCap
          /\ tool_cycle_count = CycleCap + 1
          /\ tool_calls # <<>> /\ tool_results = <<>> /\ provider_calls = {}
    /\ premise_ok => requests = tool_cycle_count /\ requests <= CycleCap + 1

\* C3: when every response of the model holds a tool call and every cycle
\* gives a result that is no error, process_query ends with the loop
\* message at the cap of 10: exactly 10 cycles are dispatched, the tool
\* calls of the response that trips the cap are not dispatched, and the
\* cycle counter never decreases.
C3_CycleCap ==
    /\ []CycleCapReached
    /\ [][tool_cycle_count' >= tool_cycle_count]_vars

\* C3 witness: the request ended at the cap after ten dispatched cycles.
C3_Witness ==
    /\ pc = "done" /\ premise_ok
    /\ returned = LoopMessage
    /\ dispatched_cycles = CycleCap
    /\ requests = CycleCap + 1

ErrorClasses == {"invalid_json", "unknown_tool", "timeout", "provider_error"}

\* C4: when every entry of a cycle is an error entry, of whatever class
\* (arguments that are no JSON, unknown tool, provider timeout, provider
\* failure), process_query returns the failure message at the end of that
\* cycle and makes no further model request.
C4_AllErrorCycleEndsLoop ==
    [][ ( /\ pc = "dispatch"
          /\ call_idx > Len(tool_calls)
          /\ \A k \in 1..Len(result_classes) : result_classes[k] \in ErrorClasses )
        => (pc' = "done" /\ returned' = FailureMessage /\ requests' = requests) ]_vars

\* the call has arguments that parse and a name that the catalog lacks
UnknownToolCall(tc) ==
    /\ NormalizeToolCall(tc).arguments.some
    /\ JsonLoads(NormalizeToolCall(tc).arguments.s).ok
    /\ NormalizeToolCall(tc).name.some
    /\ NormalizeToolCall(tc).name.s \notin DOMAIN tools_map

\* C5: dispatching a call whose tool name the catalog lacks gives exactly
\* one entry for it, whose content begins with the error marker, invokes no
\* session and shows no confirmation prompt.
C5_UnknownToolErrorEntry ==
    \A k \in 1..Len(tool_results) :
        UnknownToolCall(tool_calls[k]) =>
            /\ EntriesOf(NormalizeToolCall(tool_calls[k]).id) = {k}
            /\ StartsWithError(tool_results[k].content)
            /\ NormalizeToolCall(tool_calls[k]).id \notin provider_calls \cup prompts

\* What the dispatcher does guarantee for such a call: exactly one entry,
\* the unknown-tool message, no session invoked and no prompt shown.
UnknownToolEntryNoSessionNoPrompt ==
    \A k \in 1..Len(tool_results) :
        UnknownToolCall(tool_calls[k]) =>
            /\ EntriesOf(NormalizeToolCall(tool_calls[k]).id) = {k}
            /\ tool_results[k].content = UnknownToolContent(NormalizeToolCall(tool_calls[k]).name)
            /\ NormalizeToolCall(tool_calls[k]).id \notin provider_calls \cup prompts

----------------------------------------------------------------------------
(* Claims about the Connection Manager (SpecLoad, SpecLoadFair) *)

\* the for loop is past descriptor k
LoadPast(k) == load_pc # "idle" /\ k < load_pos

\* descriptor k names a provider (a url or a command)
Connectable(k) == servers[k].url \/ servers[k].command

\* the number of attempts max_retries = n allows
AttemptsAllowed(k) ==
    IF EffectiveRetries(servers[k]) > 0 THEN EffectiveRetries(servers[k]) ELSE 0

\* the state part of C9
RetriesOfUnreachable ==
    \A k \in 1..Len(servers) :
        /\ \A j \in 1..Len(delays[k]) : delays[k][j] = 2 ^ (j - 1)
        /\ \A j \in 1..(Len(delays[k]) - 1) : delays[k][j] < delays[k][j + 1]
        /\ (LoadPast(k) /\ Connectable(k) /\ servers[k].id \notin sessions) =>
              /\ attempts_made[k] = AttemptsAllowed(k)
              /\ Len(delays[k]) = (IF AttemptsAllowed(k) > 0 THEN AttemptsAllowed(k) - 1 ELSE 0)
              /\ servers[k].id \notin server_exit_stacks \cup server_processes

\* the action part of C9: the step in which a connect gives up changes no
\* registry but for the handle of its own attempt's child, no count and no
\* other descriptor's record
GiveUpTouchesNothingElse ==
    ( /\ load_pc \in {"next", "attempt", "handshake"}
      /\ load_pos \in 1..Len(servers)
      /\ load_pos' = load_pos + 1
      /\ servers[load_pos].id \notin sessions' )
    => /\ sessions' = sessions
       /\ server_exit_stacks' = server_exit_stacks
       /\ server_processes' = server_processes \ {servers[load_pos].id}
       /\ successful_connections' = successful_connections
       /\ \A j \in 1..Len(servers) :
             j # load_pos => attempts_made'[j] = attempts_made[j] /\ delays'[j] = delays[j]

LoadCountsSessions ==
    /\ load_pc # "idle" => successful_connections = Cardinality(sessions)
    /\ sessions \subseteq {servers[k].id : k \in 1..Len(servers)}
    \* in order: what the for loop has not come to is untouched
    /\ \A k \in 1..Len(servers) :
          (load_pc = "idle" \/ k > load_pos) =>
              attempts_made[k] = 0 /\ servers[k].id \notin sessions
    \* every descriptor: at the end each one that names a provider and is
    \* allowed an attempt has had one
    /\ load_pc = "done" =>
          /\ load_pos = Len(servers) + 1
          /\ \A k \in 1..Len(servers) :
                (Connectable(k) /\ AttemptsAllowed(k) > 0) => attempts_made[k] >= 1

\* C10: whatever the descriptors and whatever each connection attempt meets
\* (success, timeout, error, spawn failure), the load goes through every
\* descriptor in order, comes to its end, and the count of successes it
\* reports is the number of descriptors with a session in the registry.
C10_LoadToleratesFailures ==
    /\ []LoadCountsSessions
    /\ <>(load_pc = "done")

\* C10 witness: of two descriptors the first connected and the second used
\* up its attempts, and the load ended with a count of one.
C10_Witness ==
    /\ load_pc = "done"
    /\ Len(servers) = 2
    /\ sessions = {servers[1].id}
    /\ attempts_made[2] > 1
    /\ successful_connections = 1

\* between attempts and after the connect has returned nothing of a failed
\* attempt is left: no scope is open, and a child is alive only with its
\* handle registered (network stream) or inside a registered scope (stdio)
ReleasedBetweenAttempts ==
    load_pc \in {"attempt", "next", "done"} =>
        \A k \in 1..Len(servers) :
            /\ scopes_open[k] = 0
            /\ children_alive[k] =
                  (IF servers[k].url
                   THEN (IF servers[k].id \in server_processes THEN 1 ELSE 0)
                   ELSE (IF servers[k].id \in sessions THEN 1 ELSE 0))
            /\ servers[k].id \in server_processes => servers[k].id \in sessions

\* a descriptor whose connect returned False has nothing registered
NothingLeftWhenExhausted ==
    \A k \in 1..Len(servers) :
        (LoadPast(k) /\ servers[k].id \notin sessions) =>
            /\ servers[k].id \notin server_exit_stacks \cup server_processes
            /\ children_alive[k] = 0 /\ scopes_open[k] = 0

\* at most one child per descriptor, and one open scope, at any time
AtMostOneChild ==
    \A k \in 1..Len(servers) : children_alive[k] <= 1 /\ scopes_open[k] <= 1

ConnectingWithCommand ==
    /\ load_pc = "handshake"
    /\ servers[load_pos].url /\ servers[load_pos].command

\* the place of operation op in the attempt, 0 when it did not happen
TracePlace(op) ==
    IF op \in Range(attempt_trace)
    THEN CHOOSE i \in 1..Len(attempt_trace) : attempt_trace[i] = op
    ELSE 0

\* the first half of C20: the probe comes first, an endpoint found alive
\* spawns nothing, any other probe result spawns the child
ProbeDecidesSpawn ==
    ConnectingWithCommand =>
        /\ attempt_trace[1] = "probe"
        /\ (attempt_trace[2] = "alive") <=> ~SpawnedInAttempt
        /\ SpawnedInAttempt => servers[load_pos].id \in server_processes

\* C20: for a network-stream descriptor with a launch command each attempt
\* probes the URL first; an endpoint found alive spawns no child; otherwise
\* the child is spawned and its liveness is polled, within a startup window,
\* before the connection is attempted.
C20_ProbeSpawnPollConnect ==
    /\ ProbeDecidesSpawn
    /\ (ConnectingWithCommand /\ SpawnedInAttempt) =>
          /\ TracePlace("poll") > TracePlace("spawn")
          /\ TracePlace("poll") < TracePlace("open")

\* a descriptor with neither a command nor a url has had no attempt and no
\* wait, and has nothing registered
NoTargetNothingDone ==
    \A k \in 1..Len(servers) :
        ~Connectable(k) =>
            /\ attempts_made[k] = 0 /\ delays[k] = <<>>
            /\ children_alive[k] = 0 /\ scopes_open[k] = 0
            /\ servers[k].id \notin sessions \cup server_exit_stacks \cup server_processes
            /\ (load_pos = k => load_pc \in {"idle", "next"})

\* the step of the for loop at such a descriptor goes to the next one and
\* changes neither the count of successes nor a registry
NoTargetSkipped ==
    ( /\ load_pc = "next"
      /\ load_pos \in 1..Len(servers)
      /\ ~Connectable(load_pos) )
    => /\ load_pc' = "next"
       /\ load_pos' = load_pos + 1
       /\ successful_connections' = successful_connections
       /\ attempts_made' = attempts_made /\ delays' = delays
       /\ sessions' = sessions /\ session_order' = session_order
       /\ server_exit_stacks' = server_exit_stacks
       /\ server_processes' = server_processes
       /\ tools_map' = tools_map

\* C21: a descriptor with neither a command nor a url causes no connection
\* attempt and no retry, is not counted as a successful connection,
\* registers nothing, and the load continues with the next descriptor.
C21_MissingTargetSkipped ==
    /\ []NoTargetNothingDone
    /\ [][NoTargetSkipped]_vars

\* C21 witness: of two descriptors the first has neither a command nor a
\* url and the second connected after it; the load ended with a count of
\* one.
C21_Witness ==
    /\ load_pc = "done"
    /\ Len(servers) = 2
    /\ ~Connectable(1)
    /\ attempts_made[1] = 0
    /\ sessions = {servers[2].id}
    /\ successful_connections = 1

----------------------------------------------------------------------------
(* Claims about the dispatcher's error entries and the forced actions      *)
(* (SpecQuery)                                                             *)

\* the call's argument payload is a string that json.loads rejects
MalformedCall(tc) ==
    /\ NormalizeToolCall(tc).arguments.some
    /\ ~JsonLoads(NormalizeToolCall(tc).arguments.s).ok

\* text ends with the tokens of tail
EndsWith(text, tail) ==
    /\ Len(text) >= Len(tail)
    /\ SubSeq(text, Len(text) - Len(tail) + 1, Len(text)) = tail

\* the state part of C15: the entry of a call with malformed arguments
MalformedEntries ==
    \A k \in 1..Len(tool_results) :
        MalformedCall(tool_calls[k]) =>
            /\ tool_results[k].role = "tool"
            /\ tool_results[k].tool_call_id = NormalizeToolCall(tool_calls[k]).id
            /\ StartsWithError(tool_results[k].content)
            /\ Len(tool_results[k].content) > Len(NormalizeToolCall(tool_calls[k]).arguments.s)
            /\ EndsWith(tool_results[k].content, NormalizeToolCall(tool_calls[k]).arguments.s)
            /\ result_classes[k] = "invalid_json"
            /\ NormalizeToolCall(tool_calls[k]).id \notin provider_calls \cup prompts

\* the action part of C15: the step that dispatches such a call writes one
\* entry, reaches no provider and no prompt, and goes on to the next call
MalformedStepContinues ==
    ( /\ pc = "dispatch"
      /\ call_idx \in 1..Len(tool_calls)
      /\ MalformedCall(tool_calls[call_idx]) )
    => /\ pc' = "dispatch"
       /\ call_idx' = call_idx + 1
       /\ Len(tool_results') = Len(tool_results) + 1
       /\ provider_calls' = provider_calls
       /\ prompts' = prompts

\* C15: dispatching a call whose argument payload does not parse as JSON
\* writes a tool-result error entry for that call that carries the raw
\* payload, with no provider call, no use of the catalog and no confirmation
\* prompt, also for control_pump and for a name the catalog lacks, and the
\* dispatch goes on with the next call.
C15_MalformedArgumentsEntry ==
    /\ []MalformedEntries
    /\ [][MalformedStepContinues]_vars

\* C15 witness: a turn of three calls, control_pump and an unknown tool with
\* malformed arguments, then get_sensor_data, which reached its provider.
C15_Witness ==
    /\ pc = "dispatch"
    /\ Len(tool_calls) = 3
    /\ result_classes = <<"invalid_json", "invalid_json", "ok">>
    /\ NormalizeToolCall(tool_calls[1]).name = Some(ControlPump)
    /\ NormalizeToolCall(tool_calls[2]).name = Some(NoTool)
    /\ provider_calls = {3}
    /\ prompts = {}

\* the forced call is the one call of its turn, a search or a sensor read
ForcedCallShape ==
    /\ Len(tool_calls) = 1
    /\ NormalizeToolCall(tool_calls[1]).name \in {Some(BrowserUse), Some(GetSensorData)}

\* C19: a forced tool call (browser search or sensor read) is made up only
\* on a turn in which the model issued no tool call, structured or
\* intercepted from its text; on a turn with tool calls the calls dispatched
\* are exactly the model's.
C19_ForcedNeverOverrides ==
    pc = "dispatch" =>
        /\ forced_turn => (model_calls = <<>> /\ ForcedCallShape)
        /\ ~forced_turn => (model_calls # <<>> /\ tool_calls = model_calls)
        /\ is_intercepted_json => ~forced_turn

\* C19 witness: the user asks about irrigation and the sensor, no reading is
\* in the history yet, so that the sensor read would be forced on a turn
\* without tool calls; the model calls control_pump and that call alone is
\* dispatched.
C19_Witness ==
    /\ pc = "dispatch"
    /\ DecideForcedAction(query, <<>>, tools_map, sensor_snapshot).type = "tool"
    /\ ~forced_turn
    /\ Len(model_calls) = 1
    /\ tool_calls = model_calls
    /\ NormalizeToolCall(tool_calls[1]).name = Some(ControlPump)
    /\ provider_calls = {1}

\* C14: every error that occurs during process_query, in the streamed model
\* request, in the aggregation of the fragments or in the dispatch of the
\* tool calls, becomes a tool-result message or a returned string; no
\* exception leaves process_query.
C14_NoExceptionLeaves == pc # "raised"

\* the errors of the dispatch that the loop body catches do become entries
CaughtErrorsBecomeEntries ==
    \A k \in 1..Len(result_classes) :
        result_classes[k] \in {"invalid_json", "timeout", "provider_error"} =>
            StartsWithError(tool_results[k].content)

----------------------------------------------------------------------------
(* SpecPoll: one call of _maybe_wait_browser_use_result (lines 811-858),   *)
(* the while loop taken one pass at a time, with a clock in seconds.  What *)
(* browser_use answered first, tool_timeout, and what each call of         *)
(* browser_get_result meets and how long it takes are chosen per step.     *)

MaxPollTimeout == 17
PollTimeouts == {4, 12, MaxPollTimeout}

\* the statuses the browser server gives a task
PollStatuses == {"pending", "running", "completed", "failed", "cancelled"}
PollKinds == {"ok", "error", "bad_json", "timeout"}
PollDurations == {0, 2}

HandleText(status) ==
    <<"{", "task_id:", "SP", "'t1'", ",", "SP", "status:", "SP", status, "}">>
FirstResponses ==
    {HandleText("'pending'"), HandleText("'running'"), HandleText("'completed'"),
     <<"page", "text">>}

\* lines 812-820: the first answer is a task handle that is not finished
PollsWanted(result_content) ==
    \E data \in {JsonLoads(result_content)} :
        /\ data.ok /\ IsDict(data.val)
        /\ ~Falsy(DictGet(data.val, "task_id", JNull))
        /\ DictGet(data.val, "status", JNull) \in {JStr(<<"pending">>), JStr(<<"running">>)}

\* timeout=max(1, int(deadline - time.monotonic())) (line 830)
PollBudget(now, deadline) == IF deadline - now > 1 THEN deadline - now ELSE 1

\* a loop that sleeps whenever the deadline has not come yet
PollWindowOpenUntilDeadline(now, deadline) == now < deadline

\* while time.monotonic() + 5 <= deadline (line 825)
PollWindowOpen(now, deadline) == now + PollInterval <= deadline

\* the statuses that end the while loop (line 833)
BreakStatuses == {"completed", "failed"}

\* json.dumps(latest) (line 856)
LatestDump(latest) == <<"{", "status:", "SP", latest.status, "}">>

InitPoll ==
    /\ PollIdle /\ HistIdle /\ ListIdle /\ SideIdle
    /\ RegIdle /\ LoadIdle /\ LoopIdle /\ ObsIdle /\ ExtIdle /\ AggIdle

\* lines 812-823
PollStart ==
    /\ poll_pc = "idle"
    /\ \E first \in FirstResponses, t \in PollTimeouts :
         IF PollsWanted(first)
         THEN /\ poll_pc' = "polling"
              /\ poll_now' = 0
              /\ poll_deadline' = t
              /\ poll_latest' = Poll("ok", DictGet(JsonLoads(first).val, "status", JNull).a[1],
                                     FALSE, FALSE)
              /\ UNCHANGED <<poll_log, poll_text>>
         ELSE /\ poll_pc' = "done"
              /\ poll_text' = first
              /\ UNCHANGED <<poll_now, poll_deadline, poll_latest, poll_log>>
    /\ UNCHANGED <<reg_vars, load_vars, loop_vars, obs_vars, ext_vars, agg_vars, side_vars,
                   hist_vars, list_vars>>

\* one pass of the while loop (lines 825-837) and, when it breaks, the text
\* of lines 839-858
PollStep ==
    /\ poll_pc = "polling"
    /\ PollWindowOpen(poll_now, poll_deadline)
    /\ \E at \in {poll_now + PollInterval} :
       \E budget \in {PollBudget(at, poll_deadline)} :
       \E kind \in PollKinds, status \in PollStatuses, final \in BOOLEAN, raw \in BOOLEAN,
          d \in PollDurations :
         /\ kind # "ok" => (status = "running" /\ ~final)
         /\ status # "completed" => (~final /\ ~raw)
         /\ IF kind = "timeout" THEN d = 0 ELSE d < budget
         /\ \E ended \in {IF kind = "timeout" THEN at + budget ELSE at + d} :
            \E p \in {Poll(kind, status, final, raw)} :
              /\ poll_now' = ended
              /\ poll_log' = Append(poll_log, [at |-> at, ended |-> ended,
                                               kind |-> kind, status |-> status])
              /\ poll_latest' = IF kind = "ok" THEN p ELSE poll_latest
              /\ IF kind # "ok" \/ status \in BreakStatuses
                 THEN /\ poll_pc' = "done"
                      /\ poll_text' = BrowserResultText(poll_latest', LatestDump(poll_latest'))
                 ELSE UNCHANGED <<poll_pc, poll_text>>
    /\ UNCHANGED <<poll_deadline, reg_vars, load_vars, loop_vars, obs_vars, ext_vars,
                   agg_vars, side_vars, hist_vars, list_vars>>

\* the while condition fails: less than five seconds are left (line 825)
PollDeadline ==
    /\ poll_pc = "polling"
    /\ ~PollWindowOpen(poll_now, poll_deadline)
    /\ poll_pc' = "done"
    /\ poll_text' = BrowserResultText(poll_latest, LatestDump(poll_latest))
    /\ UNCHANGED <<poll_now, poll_deadline, poll_latest, poll_log, reg_vars, load_vars,
                   loop_vars, obs_vars, ext_vars, agg_vars, side_vars, hist_vars, list_vars>>

NextPoll == PollStart \/ PollStep \/ PollDeadline

SpecPoll == InitPoll /\ [][NextPoll]_vars

\* the statuses after which a task changes no more
TerminalStatuses == {"completed", "failed", "cancelled"}

\* poll k of the log reported the status st
Reported(k, statuses) == poll_log[k].kind = "ok" /\ poll_log[k].status \in statuses

\* every poll comes PollInterval seconds after the one before it ended, or
\* after the call began, and no later than the deadline
PollsAtInterval ==
    \A k \in 1..Len(poll_log) :
        /\ poll_log[k].at = (IF k = 1 THEN 0 ELSE poll_log[k - 1].ended) + PollInterval
        /\ poll_log[k].at <= poll_deadline

\* no poll follows one that reported completed or failed, and the polling
\* goes on until then unless the deadline, or a poll that failed, ends it
PollStopsAtBreakStatus ==
    /\ \A k \in 1..(Len(poll_log) - 1) : Reported(k, PollStatuses \ BreakStatuses)
    /\ (poll_pc = "done" /\ poll_log # <<>>
          /\ Reported(Len(poll_log), PollStatuses \ BreakStatuses))
       => poll_now + PollInterval > poll_deadline

\* C18: for a browser_use call that answered with a task handle of status
\* pending or running, browser_get_result is polled every 5 seconds and the
\* polling stops at the first poll that reports a terminal status
\* (completed, failed or cancelled) or when the deadline has come,
\* whichever is first.
C18_PollUntilTerminal ==
    /\ PollsAtInterval
    /\ \A k \in 1..(Len(poll_log) - 1) : ~Reported(k, TerminalStatuses)

\* the polling was entered and the call has returned
PolledAndReturned == poll_pc = "done" /\ poll_latest # NoPoll

\* latest is the answer of the last poll that gave a status, or the task
\* handle when no poll did
LatestIsLastAnswer ==
    PolledAndReturned =>
        \A k \in 1..Len(poll_log) :
            (poll_log[k].kind = "ok"
               /\ \A j \in (k + 1)..Len(poll_log) : poll_log[j].kind # "ok")
            => poll_latest.status = poll_log[k].status

\* C24: when the latest polled status is completed the result is the
\* final_result summary if it is not empty, else the raw extracted_content
\* if it is not empty; when it is failed the result carries the error
\* detail; in every other case (pending or running at the deadline,
\* completed with neither field) the latest payload is returned serialized.
C24_PolledResultTranslated ==
    /\ LatestIsLastAnswer
    /\ PolledAndReturned =>
          /\ (poll_latest.status = "completed" /\ poll_latest.final)
                => poll_text = <<"[Browser Result]", "final_result">>
          /\ (poll_latest.status = "completed" /\ ~poll_latest.final /\ poll_latest.raw)
                => poll_text = <<"[Browser Result (Raw Content)]", "extracted_content">>
          /\ poll_latest.status = "failed"
                => (poll_text[1] = "[Browser Task Failed]" /\ "detail" \in Range(poll_text))
          /\ ( \/ poll_latest.status \notin {"completed", "failed"}
               \/ poll_latest.status = "completed" /\ ~poll_latest.final /\ ~poll_latest.raw )
                => poll_text = LatestDump(poll_latest)

\* C24 witness: the second poll reported completed with both a summary and
\* raw content, and the call returned the summary.
C24_Witness ==
    /\ poll_pc = "done"
    /\ Len(poll_log) = 2
    /\ poll_latest.status = "completed" /\ poll_latest.final /\ poll_latest.raw
    /\ poll_text = <<"[Browser Result]", "final_result">>

----------------------------------------------------------------------------
(* SpecTools: calls of list_tools (lines 349-385) on a client whose        *)
(* sessions are connected, the for loop taken one session at a time.  What *)
(* each session's listing meets and the tools it offers are chosen per     *)
(* step.                                                                   *)

MaxSessions == 3
MaxRefreshes == 2

\* the registries a load leaves: up to MaxSessions ids in connection order
ListRegistries ==
    { order \in UNION {[1..n -> {"irrigation", "browser", "weather"}] : n \in 0..MaxSessions} :
        \A i, j \in 1..Len(order) : i # j => order[i] # order[j] }

\* a tool as a provider lists it
Tool(name, server_id) ==
    [name |-> name, description |-> <<"by", server_id>>, inputSchema |-> <<"schema of", server_id>>]

\* response.tools of a session
ToolOffers(server_id) ==
    { <<>>,
      <<Tool(GetSensorData, server_id)>>,
      <<Tool(BrowserUse, server_id), Tool(GetSensorData, server_id)>>,
      <<Tool(ControlPump, server_id)>> }

ListResults == {"ok", "timeout", "error"}

InitTools ==
    /\ session_order \in ListRegistries
    /\ sessions = Range(session_order)
    /\ server_exit_stacks = sessions
    /\ server_processes = {}
    /\ tools_map = EmptyCatalog
    /\ ListIdle /\ PollIdle /\ HistIdle /\ SideIdle
    /\ LoadIdle /\ LoopIdle /\ ObsIdle /\ ExtIdle /\ AggIdle

\* lines 351-359: without sessions the call returns, with sessions the
\* catalog is cleared and the for loop begins
ListStart ==
    /\ list_pc = "idle"
    /\ list_log.refresh < MaxRefreshes
    /\ list_log' = [refresh |-> list_log.refresh + 1, stale |-> DOMAIN tools_map,
                    met |-> <<>>]
    /\ IF sessions = {}
       THEN /\ list_pc' = "done"
            /\ UNCHANGED <<tools_map, list_pos>>
       ELSE /\ list_pc' = "listing"
            /\ list_pos' = 1
            /\ tools_map' = ClearedCatalog(tools_map)
    /\ UNCHANGED <<sessions, server_exit_stacks, server_processes, session_order,
                   load_vars, loop_vars, obs_vars, ext_vars, agg_vars, side_vars, hist_vars, poll_vars>>

\* one pass of the for loop (lines 361-382)
ListSession ==
    /\ list_pc = "listing"
    /\ list_pos <= Len(session_order)
    /\ \E server_id \in {session_order[list_pos]} :
       \E result \in ListResults, tools \in ToolOffers(server_id) :
         /\ result # "ok" => tools = <<>>
         /\ tools_map' = IF result = "ok" THEN RegisterTools(tools_map, server_id, tools)
                         ELSE tools_map
         /\ list_log' = [list_log EXCEPT !.met =
                            Append(@, [server_id |-> server_id, result |-> result,
                                       tools |-> tools])]
    /\ list_pos' = list_pos + 1
    /\ UNCHANGED <<list_pc, sessions, server_exit_stacks, server_processes, session_order,
                   load_vars, loop_vars, obs_vars, ext_vars, agg_vars, side_vars, hist_vars, poll_vars>>

\* the for loop is over: the report of lines 384-385
ListFinish ==
    /\ list_pc = "listing"
    /\ list_pos > Len(session_order)
    /\ list_pc' = "done"
    /\ UNCHANGED <<list_pos, list_log, reg_vars, load_vars, loop_vars, obs_vars, ext_vars,
                   agg_vars, side_vars, hist_vars, poll_vars>>

\* list_tools is called once more
ListAgain ==
    /\ list_pc = "done"
    /\ list_log.refresh < MaxRefreshes
    /\ list_pc' = "idle"
    /\ UNCHANGED <<list_pos, list_log, reg_vars, load_vars, loop_vars, obs_vars, ext_vars,
                   agg_vars, side_vars, hist_vars, poll_vars>>

NextTools == ListStart \/ ListSession \/ ListFinish \/ ListAgain

SpecTools == InitTools /\ [][NextTools]_vars

----------------------------------------------------------------------------
(* Claims about the catalog (SpecTools) *)

\* what the sessions met in the refresh under way or just ended
ThisRefresh == list_log.met

\* the listings of log that succeeded and offered the name
OffersOf(log, name) ==
    { k \in 1..Len(log) :
        log[k].result = "ok" /\ \E j \in 1..Len(log[k].tools) : log[k].tools[j].name = name }

\* the names that the successful listings of log offered
ListedNames(log) ==
    UNION { {log[k].tools[j].name : j \in 1..Len(log[k].tools)} :
              k \in {i \in 1..Len(log) : log[i].result = "ok"} }

\* a refresh is over that found sessions registered
RefreshDone == list_pc = "done" /\ sessions # {}

\* C16: list_tools asks every registered session; a session whose listing
\* times out or raises is passed over and the refresh goes on; after the
\* refresh the catalog holds exactly the tools of the sessions whose listing
\* succeeded in this refresh, none of a session that failed this time even
\* when an earlier refresh had registered them.
C16_RefreshToleratesFailures ==
    /\ list_pc = "listing" =>
          /\ Len(ThisRefresh) = list_pos - 1
          /\ \A k \in 1..Len(ThisRefresh) : ThisRefresh[k].server_id = session_order[k]
          /\ DOMAIN tools_map = ListedNames(ThisRefresh)
    /\ RefreshDone =>
          /\ Len(ThisRefresh) = Len(session_order)
          /\ \A k \in 1..Len(ThisRefresh) : ThisRefresh[k].server_id = session_order[k]
          /\ DOMAIN tools_map = ListedNames(ThisRefresh)
          /\ \A n \in DOMAIN tools_map :
                \E k \in OffersOf(ThisRefresh, n) :
                    tools_map[n].server_id = ThisRefresh[k].server_id

\* C16 witness: the second refresh is over; the first session, whose tools
\* the first refresh had registered, timed out this time, a later one
\* succeeded, and the catalog holds the later one's tools only.
C16_Witness ==
    /\ RefreshDone
    /\ list_log.refresh = 2
    /\ Len(session_order) >= 2
    /\ ControlPump \in list_log.stale
    /\ ThisRefresh[1].result = "timeout"
    /\ ThisRefresh[2].result = "ok" /\ ThisRefresh[2].tools # <<>>
    /\ DOMAIN tools_map = ListedNames(<<ThisRefresh[2]>>)
    /\ ControlPump \notin DOMAIN tools_map

\* the last successful listing of log that offered the name
LastOffer(log, name) ==
    CHOOSE k \in OffersOf(log, name) : \A i \in OffersOf(log, name) : i <= k

\* the last tool of that name in a listing
LastTool(tools, name) ==
    tools[CHOOSE j \in 1..Len(tools) :
            /\ tools[j].name = name
            /\ \A i \in 1..Len(tools) : tools[i].name = name => i <= j]

\* C17: when several sessions whose listing succeeded offer a tool of one
\* name, after the refresh the catalog holds one entry for that name, and
\* its owner, description and schema are those of the last such session in
\* the order of the registry.
C17_LastSessionWins ==
    RefreshDone =>
        \A n \in DOMAIN tools_map :
            \E k \in {LastOffer(ThisRefresh, n)} :
            \E tool \in {LastTool(ThisRefresh[k].tools, n)} :
                tools_map[n] = ToolInfo(session_order[k], tool.description, tool.inputSchema)

\* C17 witness: the first and the third session both listed get_sensor_data,
\* the second one failed, and the entry is the third session's.
C17_Witness ==
    /\ RefreshDone
    /\ Len(session_order) = 3
    /\ OffersOf(ThisRefresh, GetSensorData) = {1, 3}
    /\ ThisRefresh[2].result = "error"
    /\ tools_map[GetSensorData].server_id = session_order[3]
    /\ tools_map[GetSensorData].description = <<"by", session_order[3]>>

----------------------------------------------------------------------------
(* SpecChat: chat_loop (lines 882-918) reading up to MaxTurns lines, each  *)
(* a query given to process_query or the word clear, with the history that *)
(* the steps of process_query append to.  The steps are those of SpecQuery *)
(* with what they do to conversation_history; up to MaxChatRequests model  *)
(* requests are made in all.                                               *)

MaxTurns == 2
MaxChatRequests == 2

ChatQueries == { <<"sousuo", "x">> }
ChatStreams ==
    { <<NativeCall(0, GetSensorData, EmptyArgs), NativeCall(1, ControlPump, PumpArgs)>>,
      <<NativeCall(0, ControlPump, <<"{">>), NativeCall(1, GetSensorData, <<"{">>)>>,
      \* the second call's only fragment has no argument chunk
      <<NativeCall(0, ControlPump, PumpArgs),
        Chunk(None, <<DeltaCall(1, Some(GetSensorData), None)>>)>>,
      <<TextChunk>>,
      <<Chunk(Some(<<"wufa", "lianwang">>), <<>>)>>,
      <<Chunk(Some(<<"FENCE", "json", "SP">>), <<>>),
        Chunk(Some(SensorCallText \o <<"NL", "FENCE">>), <<>>)>> }

\* the messages of the history
SystemMessage == [role |-> "system", content |-> <<"SYSTEM_PROMPT">>]
UserMessage(q) == [role |-> "user", content |-> q]

\* _append_assistant_tool_calls (lines 648-661), on the dicts of the
\* extractor or of the forced action
AssistantToolCalls(calls) ==
    [role |-> "assistant",
     tool_calls |-> [k \in 1..Len(calls) |->
                        [id |-> calls[k].id, type |-> "function",
                         function |-> [name |-> calls[k].name,
                                       arguments |-> calls[k].arguments]]]]

\* a history that takes the entries last to first
HistoryExtendReversed(history, entries) ==
    history \o [k \in 1..Len(entries) |-> entries[Len(entries) + 1 - k]]

\* self.conversation_history.extend(tool_results) (lines 503 and 533)
HistoryExtend(history, entries) == history \o entries

\* _has_sensor_snapshot_since_last_user (lines 799-809) on the history
HasSensorSnapshotSinceLastUser(history) ==
    \E i \in 1..Len(history) :
        /\ history[i].role = "tool"
        /\ "turangshidu" \in Range(history[i].content)
        /\ \A j \in i..Len(history) : history[j].role # "user"

InitChat ==
    /\ session_order = <<"irrigation", "browser">>
    /\ sessions = Range(session_order)
    /\ tools_map = CatalogOf(sessions)
    /\ server_exit_stacks = sessions
    /\ server_processes = {}
    /\ LoadIdle /\ LoopIdle /\ ObsIdle /\ ExtIdle /\ AggIdle /\ OthersIdle

\* chat_loop reads a query and calls process_query (lines 895-912), which
\* puts the system prompt into an empty history and then the query (403-410)
ChatStart ==
    /\ chat_turns < MaxTurns
    /\ ProcessQueryStart
    /\ query' \in ChatQueries
    /\ chat_turns' = chat_turns + 1
    /\ UNCHANGED chat_requests
    /\ conversation_history' =
          Append(IF conversation_history = <<>> THEN <<SystemMessage>>
                 ELSE conversation_history,
                 UserMessage(query'))

\* a forced call is appended as an assistant message before its dispatch
\* (lines 522-524); the text of a final answer is returned and not appended
ChatRequest ==
    /\ chat_requests < MaxChatRequests
    /\ chat_requests' = chat_requests + 1
    /\ ModelRequestOf(ChatStreams)
    /\ conversation_history' =
          IF forced_turn' THEN Append(conversation_history, AssistantToolCalls(tool_calls'))
          ELSE conversation_history
    /\ UNCHANGED chat_turns

ChatRequestRaises ==
    /\ chat_requests < MaxChatRequests
    /\ chat_requests' = chat_requests + 1
    /\ RequestRaises
    /\ UNCHANGED <<conversation_history, chat_turns>>

\* the entries stay in the list of _process_tool_calls until it returns
ChatDispatch == DispatchCall /\ UNCHANGED hist_vars

\* lines 500-503, and 533 on a forced turn
ChatEndCycle ==
    /\ EndCycle
    /\ conversation_history' =
          HistoryExtend(IF is_intercepted_json
                        THEN Append(conversation_history, AssistantToolCalls(tool_calls))
                        ELSE conversation_history,
                        tool_results)
    /\ UNCHANGED <<chat_turns, chat_requests>>

\* process_query returned or raised (lines 912-918): chat_loop goes back to
\* its prompt; the locals of the call are gone
ChatReturn ==
    /\ pc \in {"done", "raised"}
    /\ pc' = "idle" /\ query' = <<>> /\ tool_cycle_count' = 0
    /\ tool_calls' = <<>> /\ call_idx' = 0 /\ tool_results' = <<>>
    /\ is_intercepted_json' = FALSE /\ forced_turn' = FALSE
    /\ returned' = <<>> /\ sensor_snapshot' = FALSE
    /\ requests' = 0 /\ dispatched_cycles' = 0 /\ premise_ok' = TRUE
    /\ result_classes' = <<>> /\ provider_calls' = {} /\ prompts' = {}
    /\ last_prompt' = NoPrompt /\ model_calls' = <<>>
    /\ UNCHANGED <<hist_vars, reg_vars, load_vars, ext_vars, agg_vars, side_vars, list_vars, poll_vars>>

\* the line read is the word clear (lines 902-905)
ChatClear ==
    /\ pc = "idle"
    /\ chat_turns < MaxTurns
    /\ chat_turns' = chat_turns + 1
    /\ conversation_history' = <<>>
    /\ UNCHANGED chat_requests
    /\ UNCHANGED <<reg_vars, load_vars, loop_vars, obs_vars, ext_vars, agg_vars, side_vars,
                   list_vars, poll_vars>>

\* clean() (lines 920-941) after the loop: the registries and the history
\* are cleared
ChatClean ==
    /\ pc = "idle"
    /\ sessions # {}
    /\ sessions' = {} /\ session_order' = <<>> /\ tools_map' = EmptyCatalog
    /\ server_exit_stacks' = {} /\ server_processes' = {}
    /\ conversation_history' = <<>>
    /\ chat_turns' = MaxTurns
    /\ UNCHANGED chat_requests
    /\ UNCHANGED <<load_vars, loop_vars, obs_vars, ext_vars, agg_vars, side_vars, list_vars, poll_vars>>

NextChat ==
    \/ ChatStart \/ ChatRequest \/ ChatRequestRaises \/ ChatDispatch \/ ChatEndCycle
    \/ ChatReturn \/ ChatClear \/ ChatClean

SpecChat == InitChat /\ [][NextChat]_vars

\* what SpecQuery keeps of the history is what the code reads in it
SnapshotIsOfHistory ==
    pc = "request" => sensor_snapshot = HasSensorSnapshotSinceLastUser(conversation_history)

----------------------------------------------------------------------------
(* Claims about the order of dispatch and the history (SpecChat) *)

IsPrefix(s1, s2) == Len(s1) <= Len(s2) /\ SubSeq(s2, 1, Len(s1)) = s1

\* the id of the k-th call of the turn
CallId(k) == NormalizeToolCall(tool_calls[k]).id

\* during a dispatch the entries written are those of the calls before
\* call_idx, one each and in their order, and nothing of a later call has
\* reached a provider or the prompt
DispatchedPrefix ==
    pc = "dispatch" =>
        /\ Len(tool_results) = call_idx - 1
        /\ \A k \in 1..Len(tool_results) : tool_results[k].tool_call_id = CallId(k)
        /\ provider_calls \cup prompts \subseteq {CallId(k) : k \in 1..Len(tool_results)}

\* a step that reaches a provider or the prompt, or writes an entry, does so
\* for the call at call_idx alone, when every call before it has its entry
DispatchInOrder ==
    ( /\ pc = "dispatch"
      /\ pc' \in {"dispatch", "raised"}
      /\ \/ provider_calls' # provider_calls
         \/ prompts' # prompts
         \/ tool_results' # tool_results )
    => /\ call_idx \in 1..Len(tool_calls)
       /\ Len(tool_results) = call_idx - 1
       /\ (provider_calls' \ provider_calls) \cup (prompts' \ prompts) \subseteq {CallId(call_idx)}
       /\ Len(tool_results') = call_idx
       /\ SubSeq(tool_results', 1, call_idx - 1) = tool_results
       /\ tool_results'[call_idx].tool_call_id = CallId(call_idx)

\* when _process_tool_calls has returned, its entries are the end of the
\* history, in the order of the dispatch
ResultsAppendedInOrder ==
    (pc = "dispatch" /\ pc' \in {"request", "done"}) =>
        /\ Len(tool_results) = Len(tool_calls)
        /\ EndsWith(conversation_history', tool_results)

\* C12: the tool calls of a turn are dispatched one at a time in the order
\* of the records; the provider call or the confirmation prompt of call i+1
\* does not start before the entry of call i is written, and the results are
\* appended to the conversation in that order.
C12_SequentialDispatch ==
    /\ []DispatchedPrefix
    /\ [][DispatchInOrder]_vars
    /\ [][ResultsAppendedInOrder]_vars

\* C12 witness: a turn of get_sensor_data and control_pump has been
\* dispatched, the pump declined, and the history ends with the two
\* entries, the sensor's first.
C12_Witness ==
    /\ pc = "request"
    /\ Len(conversation_history) = 4
    /\ conversation_history[3].role = "tool" /\ conversation_history[3].tool_call_id = 1
    /\ conversation_history[3].content = SensorReading
    /\ conversation_history[4].role = "tool" /\ conversation_history[4].tool_call_id = 2
    /\ conversation_history[4].content = DeniedContent(Some(ControlPump))

\* a step of process_query leaves every message in its place; the history
\* is emptied by the word clear or by clean(), between two calls, only
HistoryOnlyGrows ==
    \/ IsPrefix(conversation_history, conversation_history')
    \/ pc = "idle" /\ pc' = "idle" /\ conversation_history' = <<>>

\* when the dispatch of a turn is over, whichever way, the entries it
\* produced are the end of the history
ProducedEntriesAppended ==
    (pc = "dispatch" /\ pc' # "dispatch") => EndsWith(conversation_history', tool_results)

\* C13: during process_query the history only grows, every message keeping
\* its place and content, and every tool-result entry the dispatcher
\* produces, error entries and those of the cycle that ends with the failure
\* message included, is appended in the order of dispatch; only clear and
\* clean() remove messages.
C13_HistoryNeverLoses ==
    /\ [][HistoryOnlyGrows]_vars
    /\ [][ProducedEntriesAppended]_vars

\* the entries of the cycle that ends with the failure message are in the
\* history when process_query returns it
FailureCycleKept ==
    (pc = "done" /\ returned = FailureMessage) =>
        (tool_results # <<>> /\ EndsWith(conversation_history, tool_results))

----------------------------------------------------------------------------
(* SpecClean: one call of clean() (lines 920-941) on a client with         *)
(* sessions, some of them with a child process, and _terminate_process     *)
(* (lines 194-204) taken one await at a time.  Which processes have ended  *)
(* already, and what terminate(), kill() and each wait meet, are chosen    *)
(* per step.                                                               *)

\* what process.terminate() and process.kill() meet: they return, or the
\* process is gone
SignalOutcomes == {"ok", "ProcessLookupError"}

\* what asyncio.wait_for(process.wait(), timeout=5) meets
WaitOutcomes == {"exited", "TimeoutError", "OSError"}

\* a handler for the timeout alone
IsTimeoutError(e) == e = "TimeoutError"

\* isinstance(e, Exception), of `except Exception` (line 200) and of
\* suppress(Exception) (lines 201 and 203)
IsException(e) == e \in {"TimeoutError", "ProcessLookupError", "OSError", "RuntimeError"}

\* the processes in the order of list(self._server_processes.items())
ProcessQueue == SelectSeq(session_order, LAMBDA id : id \in server_processes)

InitClean ==
    /\ session_order \in ListRegistries
    /\ sessions = Range(session_order)
    /\ server_exit_stacks = sessions
    /\ server_processes \in SUBSET sessions
    /\ tools_map = CatalogOf(sessions)
    /\ proc_exited \in SUBSET server_processes
    /\ clean_pc = "idle" /\ clean_queue = <<>> /\ term_trace = <<>>
    /\ clean_log = <<>>
    /\ conversation_history \in {<<>>, <<SystemMessage, UserMessage(<<"hello">>)>>}
    /\ chat_turns = 0 /\ chat_requests = 0
    /\ ListIdle /\ PollIdle /\ PhaseIdle /\ ApiIdle /\ EdgeIdle
    /\ LoadIdle /\ LoopIdle /\ ObsIdle /\ ExtIdle /\ AggIdle

\* what stack.aclose() meets: it returns, or the scope raises (the "cancel
\* scope" RuntimeError of line 927 is one such error)
ScopeOutcomes == {"ok", "RuntimeError"}

\* the exit stacks in the order of list(self._server_exit_stacks.items())
ScopeQueue == SelectSeq(session_order, LAMBDA id : id \in server_exit_stacks)

\* an aclose() whose error nothing catches
AcloseCaughtNever(e) == FALSE

\* try: await stack.aclose() / except Exception (lines 923-925)
AcloseCaught(e) == IsException(e)

\* the closes of the for loop of lines 922-930 under the outcomes `met`,
\* one entry per aclose() begun: the loop goes on after a close that
\* returned or whose error was caught, and ends at one whose error was not
RECURSIVE ScopeCloses(_, _)
ScopeCloses(queue, met) ==
    IF queue = <<>> THEN <<>>
    ELSE IF met[Head(queue)] = "ok" \/ AcloseCaught(met[Head(queue)])
    THEN <<<<"aclose", Head(queue), met[Head(queue)]>>>> \o ScopeCloses(Tail(queue), met)
    ELSE <<<<"aclose", Head(queue), met[Head(queue)]>>>>

\* an error of aclose() left the for loop
ScopeLoopRaised(closes) ==
    closes # <<>> /\ closes[Len(closes)][3] # "ok" /\ ~AcloseCaught(closes[Len(closes)][3])

\* clean() is called (on a fresh client, or after an earlier clean()
\* returned): the exit stacks are closed, an error of aclose() being logged
\* (lines 922-930), and the for loop over the processes begins (line 932)
CleanStart ==
    /\ clean_pc \in {"idle", "done"}
    /\ \E met \in [server_exit_stacks -> ScopeOutcomes] :
         \E closes \in {ScopeCloses(ScopeQueue, met)} :
            /\ clean_log' = closes
            /\ IF ScopeLoopRaised(closes)
               THEN clean_pc' = "raised" /\ clean_queue' = <<>>
               ELSE clean_pc' = "procs" /\ clean_queue' = ProcessQueue
    /\ UNCHANGED <<proc_exited, term_trace>>
    /\ UNCHANGED <<reg_vars, load_vars, loop_vars, obs_vars, ext_vars, agg_vars,
                   hist_vars, list_vars, poll_vars, phase_vars, api_vars, edge_vars>>

\* _terminate_process returns, or raises into the suppress of line 933: the
\* for loop of clean() takes the next process
TerminateLeaves ==
    /\ clean_pc' = "procs"
    /\ clean_queue' = Tail(clean_queue)

\* lines 195-198: the test of returncode and process.terminate()
TerminateEnter ==
    /\ clean_pc = "procs"
    /\ clean_queue # <<>>
    /\ clean_log' = Append(clean_log, <<"terminate", Head(clean_queue), "begun">>)
    /\ IF Head(clean_queue) \in proc_exited
       THEN /\ term_trace' = <<"return">>
            /\ TerminateLeaves
       ELSE \E r \in SignalOutcomes :
              IF r = "ok"
              THEN /\ term_trace' = <<"terminate", "ok">>
                   /\ clean_pc' = "grace"
                   /\ UNCHANGED clean_queue
              ELSE IF IsException(r)
              THEN /\ term_trace' = <<"terminate", r>>
                   /\ clean_pc' = "kill"
                   /\ UNCHANGED clean_queue
              ELSE /\ term_trace' = <<"terminate", r, "raise">>
                   /\ TerminateLeaves
    /\ UNCHANGED proc_exited
    /\ UNCHANGED <<reg_vars, load_vars, loop_vars, obs_vars, ext_vars, agg_vars,
                   hist_vars, list_vars, poll_vars, phase_vars, api_vars, edge_vars>>

\* line 199: the wait of five seconds after terminate()
TerminateGrace ==
    /\ clean_pc = "grace"
    /\ \E r \in WaitOutcomes :
         IF r = "exited"
         THEN /\ term_trace' = term_trace \o <<"wait", r>>
              /\ proc_exited' = proc_exited \cup {Head(clean_queue)}
              /\ TerminateLeaves
         ELSE IF IsException(r)
         THEN /\ term_trace' = term_trace \o <<"wait", r>>
              /\ clean_pc' = "kill"
              /\ UNCHANGED <<clean_queue, proc_exited>>
         ELSE /\ term_trace' = term_trace \o <<"wait", r, "raise">>
              /\ UNCHANGED proc_exited
              /\ TerminateLeaves
    /\ UNCHANGED clean_log
    /\ UNCHANGED <<reg_vars, load_vars, loop_vars, obs_vars, ext_vars, agg_vars,
                   hist_vars, list_vars, poll_vars, phase_vars, api_vars, edge_vars>>

\* lines 200-204: process.kill() and one more wait, each under
\* suppress(Exception)
TerminateKill ==
    /\ clean_pc = "kill"
    /\ \E k \in SignalOutcomes, w \in WaitOutcomes :
         IF k # "ok" /\ ~IsException(k)
         THEN /\ term_trace' = term_trace \o <<"kill", k, "raise">>
              /\ UNCHANGED proc_exited
         ELSE IF w # "exited" /\ ~IsException(w)
         THEN /\ term_trace' = term_trace \o <<"kill", k, "wait", w, "raise">>
              /\ UNCHANGED proc_exited
         ELSE /\ term_trace' = term_trace \o <<"kill", k, "wait", w>>
              /\ proc_exited' = IF w = "exited"
                                THEN proc_exited \cup {Head(clean_queue)}
                                ELSE proc_exited
    /\ TerminateLeaves
    /\ UNCHANGED clean_log
    /\ UNCHANGED <<reg_vars, load_vars, loop_vars, obs_vars, ext_vars, agg_vars,
                   hist_vars, list_vars, poll_vars, phase_vars, api_vars, edge_vars>>

\* a clean that leaves the catalog as it was
CleanedCatalogKept(catalog) == catalog

\* self.tools_map.clear() (line 939)
CleanedCatalog(catalog) == EmptyCatalog

\* lines 936-940: the registries, the catalog and the history are cleared
CleanFinish ==
    /\ clean_pc = "procs"
    /\ clean_queue = <<>>
    /\ clean_pc' = "done"
    /\ server_exit_stacks' = {} /\ server_processes' = {}
    /\ sessions' = {} /\ session_order' = <<>>
    /\ tools_map' = CleanedCatalog(tools_map)
    /\ conversation_history' = <<>>
    /\ UNCHANGED <<clean_queue, proc_exited, term_trace, clean_log, chat_turns, chat_requests>>
    /\ UNCHANGED <<load_vars, loop_vars, obs_vars, ext_vars, agg_vars, list_vars, poll_vars,
                   phase_vars, api_vars, edge_vars>>

NextClean == CleanStart \/ TerminateEnter \/ TerminateGrace \/ TerminateKill \/ CleanFinish

SpecClean == InitClean /\ [][NextClean]_vars

----------------------------------------------------------------------------
(* Claims about the termination of a child process (SpecClean) *)

\* the place of the first op in the trace, 0 when it is not there
TermPlace(op) ==
    IF op \in Range(term_trace)
    THEN CHOOSE i \in 1..Len(term_trace) :
            term_trace[i] = op /\ \A j \in 1..(i - 1) : term_trace[j] # op
    ELSE 0

\* a process whose returncode is set gets no signal and no wait
ExitedLeftAlone ==
    (clean_pc = "procs" /\ clean_queue # <<>> /\ Head(clean_queue) \in proc_exited)
    => (term_trace' = <<"return">> /\ proc_exited' = proc_exited)

\* any other process is sent terminate() first
TerminateFirst ==
    (clean_pc = "procs" /\ clean_queue # <<>> /\ Head(clean_queue) \notin proc_exited)
    => (Len(term_trace') >= 2 /\ term_trace'[1] = "terminate")

\* kill() comes once at most, after terminate(), and right after
\* terminate() raised or the wait of the grace window timed out or raised;
\* never after the process was seen to end
KillOnlyAfterGraceFailed ==
    \A i \in 1..Len(term_trace) :
        term_trace[i] = "kill" =>
            /\ i = TermPlace("kill")
            /\ term_trace[1] = "terminate"
            /\ \/ i = 3 /\ term_trace[2] # "ok"
               \/ i = 5 /\ term_trace[2] = "ok" /\ term_trace[3] = "wait"
                        /\ term_trace[4] # "exited"
            /\ \A j \in 1..i : term_trace[j] # "exited"

\* nothing leaves _terminate_process
TerminateNeverRaises == "raise" \notin Range(term_trace)

\* C22: _terminate_process does nothing to a process that has exited
\* already; otherwise it asks for the graceful termination first and kills
\* only when the process has not exited within the grace window or the
\* graceful step raised; it never raises to its caller.
C22_TerminateThenKill ==
    /\ [](KillOnlyAfterGraceFailed /\ TerminateNeverRaises)
    /\ [][ExitedLeftAlone /\ TerminateFirst]_vars

\* C22 witness: a process outlived the grace window of terminate(), was
\* killed and ended; the call returned to clean().
C22_Witness ==
    /\ clean_pc = "procs"
    /\ term_trace = <<"terminate", "ok", "wait", "TimeoutError", "kill", "ok", "wait", "exited">>

----------------------------------------------------------------------------
(* SpecPhases: the three-phase loop of spec section 4.6 over the user      *)
(* turns of one conversation: perception, reasoning, and the action phase  *)
(* behind the PendingDecision.  client.py holds the single-phase loop      *)
(* only; the prompts of the phases (prompts.py) and the caller of the      *)
(* follow-up turn (app.py, /api/confirm) are in the repository, the loop   *)
(* itself is modelled from the spec.  The kind of each user turn and what  *)
(* the reasoning phase decides are chosen per step.                        *)

MaxPhaseTurns == 4

\* a user turn is a request, or an affirmative or a negative answer
TurnKinds == {"request", "yes", "no"}

\* what the output of the reasoning phase parses to: a decision that asks
\* for irrigation, one that does not, or no decision object at all
Decision(irrigate, mm) == [irrigate |-> irrigate, mm |-> mm, parsed |-> TRUE]
ReasoningOutputs == {Decision(TRUE, 12), Decision(TRUE, 5), Decision(FALSE, 0), NoDecision}

\* a slot that queues the decisions
StoreDecisionQueued(slot, d) == Append(slot, d)

\* the single slot, last write wins (spec section 5)
StoreDecision(slot, d) == <<d>>

InitPhases ==
    /\ PhaseIdle /\ CleanIdle /\ ApiIdle /\ EdgeIdle /\ HistIdle /\ ListIdle /\ PollIdle
    /\ RegIdle /\ LoadIdle /\ LoopIdle /\ ObsIdle /\ ExtIdle /\ AggIdle

\* a user turn arrives: with a decision pending an affirmative turn goes to
\* the action phase and a negative turn clears the slot and reports the
\* cancellation; any other turn begins with the perception phase
PhaseUserTurn ==
    /\ phase_pc = "idle"
    /\ phase_turns < MaxPhaseTurns
    /\ phase_turns' = phase_turns + 1
    /\ \E kind \in TurnKinds :
         /\ phase_input' = kind
         /\ IF pending_decision # <<>> /\ kind = "yes"
            THEN /\ phase_pc' = "action"
                 /\ phase_reply' = "none"
                 /\ UNCHANGED pending_decision
            ELSE IF pending_decision # <<>> /\ kind = "no"
            THEN /\ pending_decision' = <<>>
                 /\ phase_reply' = "cancelled"
                 /\ UNCHANGED phase_pc
            ELSE /\ phase_pc' = "perception"
                 /\ phase_reply' = "none"
                 /\ UNCHANGED pending_decision
    /\ phase_decision' = NoDecision
    /\ UNCHANGED actuations
    /\ UNCHANGED <<reg_vars, load_vars, loop_vars, obs_vars, ext_vars, agg_vars,
                   hist_vars, list_vars, poll_vars, clean_vars, api_vars, edge_vars>>

\* the perception phase: the sensing tools only
PhasePerception ==
    /\ phase_pc = "perception"
    /\ phase_pc' = "reasoning"
    /\ UNCHANGED <<phase_input, phase_turns, pending_decision, phase_decision,
                   phase_reply, actuations>>
    /\ UNCHANGED <<reg_vars, load_vars, loop_vars, obs_vars, ext_vars, agg_vars,
                   hist_vars, list_vars, poll_vars, clean_vars, api_vars, edge_vars>>

\* the reasoning phase: its output is parsed for a decision; one that asks
\* for an actuating action is stored and the turn returns the confirmation
\* prompt; an output without a decision object is returned for review
PhaseReasoning ==
    /\ phase_pc = "reasoning"
    /\ \E d \in ReasoningOutputs :
         /\ phase_decision' = d
         /\ IF d.parsed /\ d.irrigate
            THEN /\ pending_decision' = StoreDecision(pending_decision, d)
                 /\ phase_reply' = "confirm_prompt"
            ELSE /\ UNCHANGED pending_decision
                 /\ phase_reply' = IF d.parsed THEN "no_action" ELSE "manual_review"
    /\ phase_pc' = "idle"
    /\ UNCHANGED <<phase_input, phase_turns, actuations>>
    /\ UNCHANGED <<reg_vars, load_vars, loop_vars, obs_vars, ext_vars, agg_vars,
                   hist_vars, list_vars, poll_vars, clean_vars, api_vars, edge_vars>>

\* the action phase: the actuating tool is called with the stored decision,
\* then the slot is cleared
PhaseAction ==
    /\ phase_pc = "action"
    /\ actuations' = Append(actuations, Head(pending_decision))
    /\ pending_decision' = <<>>
    /\ phase_reply' = "executed"
    /\ phase_pc' = "idle"
    /\ UNCHANGED <<phase_input, phase_turns, phase_decision>>
    /\ UNCHANGED <<reg_vars, load_vars, loop_vars, obs_vars, ext_vars, agg_vars,
                   hist_vars, list_vars, poll_vars, clean_vars, api_vars, edge_vars>>

NextPhases == PhaseUserTurn \/ PhasePerception \/ PhaseReasoning \/ PhaseAction

SpecPhases == InitPhases /\ [][NextPhases]_vars

----------------------------------------------------------------------------
(* Claims about the three-phase loop (SpecPhases) *)

\* at most one decision is outstanding
AtMostOnePending == Len(pending_decision) <= 1

\* a reasoning phase that decides against irrigation, or gives no decision,
\* stores nothing and actuates nothing
NoIrrigateNoPending ==
    (phase_pc = "reasoning" /\ ~phase_decision'.irrigate)
    => (pending_decision' = pending_decision /\ actuations' = actuations
        /\ phase_reply' # "confirm_prompt")

\* a reasoning phase that decides for irrigation stores that decision as
\* the one pending, returns the confirmation prompt and actuates nothing
IrrigatePendsAndPrompts ==
    (phase_pc = "reasoning" /\ phase_decision'.irrigate)
    => (pending_decision' = <<phase_decision'>> /\ phase_reply' = "confirm_prompt"
        /\ phase_pc' = "idle" /\ actuations' = actuations)

\* an actuating call is made in the turn of an affirmative answer only, with
\* the decision that was pending, once
ActuationNeedsAffirmative ==
    actuations' # actuations
    => (phase_input = "yes" /\ pending_decision # <<>>
        /\ actuations' = Append(actuations, Head(pending_decision))
        /\ pending_decision' = <<>>)

\* a negative answer clears the pending decision and actuates nothing
NegativeClears ==
    (phase_pc = "idle" /\ pending_decision # <<>> /\ phase_input' = "no"
       /\ phase_turns' # phase_turns)
    => (pending_decision' = <<>> /\ actuations' = actuations
        /\ phase_pc' = "idle" /\ phase_reply' = "cancelled")

\* C25: a reasoning-phase decision with irrigate false creates no
\* PendingDecision and invokes no action-phase tool; one with irrigate true
\* creates exactly one PendingDecision (at most one is outstanding) and
\* returns a confirmation prompt, and no actuating tool is called until an
\* affirmative follow-up turn arrives; a negative follow-up clears the
\* PendingDecision without an actuation call.
C25_ThreePhasePending ==
    /\ []AtMostOnePending
    /\ [][NoIrrigateNoPending /\ IrrigatePendsAndPrompts
           /\ ActuationNeedsAffirmative /\ NegativeClears]_vars

\* C25 witness: a request was decided for irrigation and declined, a second
\* request was decided for irrigation, and the affirmative third turn sent
\* that decision to the actuating tool.
C25_Witness ==
    /\ phase_turns = 4
    /\ phase_pc = "idle"
    /\ phase_input = "yes"
    /\ phase_reply = "executed"
    /\ actuations = <<Decision(TRUE, 12)>>
    /\ pending_decision = <<>>

----------------------------------------------------------------------------
(* The ways a tool call leaves the client: process_query with its three    *)
(* sources of calls (the model's tool_calls, a call read out of the text,  *)
(* a forced action) and the method call_tool (lines 868-879).              *)

MaxDirectCalls == 1

PumpCallText ==
    <<"{", "name:", "'control_pump'", ",", "arguments:", "{", "turn_on:", "true", "}", "}">>

GateStreams ==
    { <<NativeCall(0, ControlPump, PumpArgs)>>,
      <<NativeCall(0, ControlPump, PumpArgs), NativeCall(1, ControlPump, PumpArgs)>>,
      <<Chunk(Some(<<"FENCE", "json", "SP">>), <<>>),
        Chunk(Some(PumpCallText \o <<"NL", "FENCE">>), <<>>)>>,
      <<Chunk(Some(<<"wufa", "lianwang">>), <<>>)>>,
      <<TextChunk>> }

DirectServers == {"irrigation", "weather"}
DirectTools == {ControlPump, GetSensorData}

InitGate == InitQuery

\* call_tool (lines 868-879), called after a process_query has returned:
\* without a session of that id ValueError is raised (875-877), else the
\* call goes to the session as it came (879); input() is not called
DirectCallTool ==
    /\ pc = "done"
    /\ Len(direct_calls) < MaxDirectCalls
    /\ \E server_id \in DirectServers, tool_name \in DirectTools :
          direct_calls' = Append(direct_calls,
                                 [server_id |-> server_id, tool_name |-> tool_name,
                                  sent |-> server_id \in sessions])
    /\ UNCHANGED <<reg_vars, load_vars, loop_vars, obs_vars, ext_vars, agg_vars,
                   hist_vars, list_vars, poll_vars, clean_vars, phase_vars, edge_vars>>

GateStart == ProcessQueryStart /\ UNCHANGED hist_vars
GateRequest == ModelRequestOf(GateStreams) /\ UNCHANGED hist_vars
GateDispatch == DispatchCall /\ UNCHANGED hist_vars
GateEndCycle == EndCycle /\ UNCHANGED hist_vars

NextGate ==
    GateStart \/ GateRequest \/ GateDispatch \/ GateEndCycle \/ DirectCallTool

SpecGate == InitGate /\ [][NextGate]_vars

\* the step asked for a confirmation and the answer was y or yes
ConfirmedInStep ==
    /\ prompts' # prompts
    /\ ~last_prompt'.answer.eof
    /\ Affirmative(last_prompt'.answer.text)

\* a step of _process_tool_calls that sends control_pump to its provider has
\* asked for the confirmation of that call and got y or yes
PumpSentFromQuery(id) ==
    /\ pc = "dispatch" /\ call_idx <= Len(tool_calls)
    /\ id \in provider_calls' \ provider_calls
    /\ NormalizeToolCall(tool_calls[call_idx]).name = Some(ControlPump)
GatedInQuery ==
    \A id \in provider_calls' \ provider_calls :
        PumpSentFromQuery(id) =>
            /\ ConfirmedInStep
            /\ last_prompt'.id = id
            /\ id \in prompts' \ prompts

\* a step of call_tool that sends control_pump
PumpSentDirectly ==
    /\ Len(direct_calls') = Len(direct_calls) + 1
    /\ direct_calls'[Len(direct_calls')].sent
    /\ direct_calls'[Len(direct_calls')].tool_name = ControlPump
GatedDirect == PumpSentDirectly => ConfirmedInStep

\* C26: no operation of the client sends control_pump to a provider without
\* an affirmative answer to a confirmation asked for that very call: neither
\* process_query, for the calls of the model, those read out of its text and
\* the forced ones, nor the method call_tool.
C26_PumpConfirmedOnEveryPath == [][GatedInQuery /\ GatedDirect]_vars

\* the part of C26 about process_query
PumpConfirmedInQuery == [][GatedInQuery]_vars

\* a pump call of the model sent after y, and one of call_tool sent unasked
PumpSentAfterYes ==
    /\ pc = "dispatch" /\ provider_calls = {1} /\ prompts = {1, 2}
    /\ result_classes = <<"ok", "declined">>
PumpSentUnasked ==
    /\ direct_calls # <<>> /\ direct_calls[1].sent
    /\ direct_calls[1].tool_name = ControlPump
    /\ prompts = {}

----------------------------------------------------------------------------
(* Claims about the list _process_tool_calls returns (SpecQuery) *)

\* the k-th entry answers the k-th record of the turn
EntryAnswersCall(k) ==
    /\ tool_results[k].role = "tool"
    /\ tool_results[k].tool_call_id = NormalizeToolCall(tool_calls[k]).id
OneEntryPerCall ==
    /\ Len(tool_results) = Len(tool_calls)
    /\ \A k \in 1..Len(tool_calls) : EntryAnswersCall(k)

\* _process_tool_calls has returned its list (line 641)
DispatchReturned == pc = "dispatch" /\ call_idx > Len(tool_calls)
\* _process_tool_calls was left by an exception of its loop body
DispatchRaised == pc = "raised" /\ call_idx >= 1

\* while the loop runs, the calls before the current one have their entry,
\* whatever their outcome was, and the list it returns has one for each
EntriesFollowCalls ==
    pc = "dispatch" =>
        /\ Len(tool_results) = call_idx - 1
        /\ Len(result_classes) = call_idx - 1
        /\ \A k \in 1..Len(tool_results) : EntryAnswersCall(k)

\* C27: _process_tool_calls ends with one entry per record of the turn, in
\* the order of the records and with their ids, whatever the outcome of each
\* call was; no call keeps the loop from reaching the calls after it.
C27_OneResultPerCall ==
    /\ EntriesFollowCalls
    /\ (DispatchReturned \/ DispatchRaised) => OneEntryPerCall

\* a turn of three calls of which the first two have arguments that are no
\* JSON: all three have their entry
FailuresDoNotStopTheTurn ==
    /\ DispatchReturned
    /\ result_classes = <<"invalid_json", "invalid_json", "ok">>

----------------------------------------------------------------------------
(* SpecLife: the operations of one client one after the other, in any      *)
(* order: load_servers_from_config, list_tools, process_query, clean.  An  *)
(* operation begins when no other one is under way (the client is driven   *)
(* by one coroutine, lines 943-956); its steps are the actions above.      *)

Retry(n) == [some |-> TRUE, n |-> n]
LifeConfigs ==
    { << [id |-> "irrigation", url |-> TRUE, command |-> TRUE, max_retries |-> Retry(1)],
         [id |-> "browser", url |-> FALSE, command |-> TRUE, max_retries |-> Retry(1)] >> }

LifeStreams ==
    { <<NativeCall(0, GetSensorData, EmptyArgs)>>, <<TextChunk>> }

InitLife ==
    /\ servers \in LifeConfigs
    /\ load_pc = "idle" /\ load_pos = 0 /\ attempt = 0
    /\ successful_connections = 0
    /\ attempts_made = [k \in 1..Len(servers) |-> 0]
    /\ delays = [k \in 1..Len(servers) |-> <<>>]
    /\ children_alive = [k \in 1..Len(servers) |-> 0]
    /\ scopes_open = [k \in 1..Len(servers) |-> 0]
    /\ attempt_trace = <<>>
    /\ RegIdle /\ LoopIdle /\ ObsIdle /\ ExtIdle /\ AggIdle /\ OthersIdle

MaxLifeRequests == 2

\* no operation of the client is under way
NoOperation == load_pc = "idle" /\ list_pc = "idle" /\ pc = "idle" /\ clean_pc = "idle"

LifeLoadStart == NoOperation /\ LoadStart
LifeListStart == NoOperation /\ ListStart
LifeQueryStart == NoOperation /\ ProcessQueryStart /\ UNCHANGED hist_vars
LifeRequest ==
    requests < MaxLifeRequests /\ ModelRequestOf(LifeStreams) /\ UNCHANGED hist_vars
LifeDispatch == DispatchCall /\ UNCHANGED hist_vars
LifeEndCycle == EndCycle /\ UNCHANGED hist_vars
LifeCleanStart == NoOperation /\ CleanStart

\* an operation has returned to its caller: its locals are gone, and what
\* was observed of it is dropped
LifeLoadReturn ==
    /\ load_pc = "done"
    /\ load_pc' = "idle" /\ load_pos' = 0 /\ attempt' = 0
    /\ successful_connections' = 0
    /\ attempts_made' = [k \in 1..Len(servers) |-> 0]
    /\ delays' = [k \in 1..Len(servers) |-> <<>>]
    /\ children_alive' = [k \in 1..Len(servers) |-> 0]
    /\ scopes_open' = [k \in 1..Len(servers) |-> 0]
    /\ attempt_trace' = <<>>
    /\ UNCHANGED <<servers, reg_vars, loop_vars, obs_vars, ext_vars, agg_vars, side_vars,
                   hist_vars, list_vars, poll_vars>>
LifeListReturn ==
    /\ list_pc = "done"
    /\ list_pc' = "idle" /\ list_pos' = 0 /\ list_log' = NoRefresh
    /\ UNCHANGED <<reg_vars, load_vars, loop_vars, obs_vars, ext_vars, agg_vars, side_vars,
                   hist_vars, poll_vars>>
LifeQueryReturn == ChatReturn
LifeCleanReturn ==
    /\ clean_pc = "done"
    /\ clean_pc' = "idle" /\ clean_queue' = <<>> /\ proc_exited' = {} /\ term_trace' = <<>>
    /\ clean_log' = <<>>
    /\ UNCHANGED <<reg_vars, load_vars, loop_vars, obs_vars, ext_vars, agg_vars,
                   hist_vars, list_vars, poll_vars, phase_vars, api_vars, edge_vars>>

NextLife ==
    \/ LifeLoadStart \/ LoadDescriptor \/ SseAttempt \/ SseHandshake \/ LocalAttempt
    \/ LoadFinish \/ LifeLoadReturn
    \/ LifeListStart \/ ListSession \/ ListFinish \/ LifeListReturn
    \/ LifeQueryStart \/ LifeRequest \/ LifeDispatch \/ LifeEndCycle \/ LifeQueryReturn
    \/ LifeCleanStart \/ TerminateEnter \/ TerminateGrace \/ TerminateKill \/ CleanFinish
    \/ LifeCleanReturn

SpecLife == InitLife /\ [][NextLife]_vars

----------------------------------------------------------------------------
(* Claims about the catalog and the sessions over the life of a client     *)
(* (SpecLife)                                                              *)

CatalogOwnersExist ==
    \A name \in DOMAIN tools_map : tools_map[name].server_id \in sessions

\* the call the dispatch is at names a tool of the catalog
AtCataloguedCall ==
    /\ pc = "dispatch" /\ call_idx <= Len(tool_calls)
    /\ NormalizeToolCall(tool_calls[call_idx]).name.some
    /\ NormalizeToolCall(tool_calls[call_idx]).name.s \in DOMAIN tools_map
DispatchFindsSession ==
    AtCataloguedCall =>
        tools_map[NormalizeToolCall(tool_calls[call_idx]).name.s].server_id \in sessions

\* C28: whatever load, refresh, query and clean operations the client has
\* gone through, the owner of every entry of the catalog is a key of
\* sessions, so the dispatch of a catalogued tool finds its session.
C28_CatalogOwnersExist == CatalogOwnersExist /\ DispatchFindsSession

\* C28 witness: a load has connected two servers and a refresh has filled
\* the catalog; the dispatch is at a call of a catalogued tool.
C28_Witness ==
    /\ AtCataloguedCall
    /\ Cardinality(sessions) = 2
    /\ Cardinality(DOMAIN tools_map) >= 2

----------------------------------------------------------------------------
(* Claims about the registries during a load (SpecLoad) *)

\* no connect_to_sse_server or connect_to_local_server is under way
NoConnectInProgress == load_pc \in {"idle", "next", "done"}

RegistriesAgree ==
    NoConnectInProgress =>
        /\ sessions = server_exit_stacks
        /\ server_processes \subseteq sessions

\* the step ended an attempt, by the registration or by the release
AttemptEnded == attempts_made' # attempts_made
EndedRegistered ==
    /\ Len(attempt_trace') >= 2
    /\ SubSeq(attempt_trace', Len(attempt_trace') - 1, Len(attempt_trace'))
          = <<"initialize", "register">>

\* an id enters sessions in the step in which the initialize of its
\* descriptor's attempt has returned in time, and in no other
RegisteredAfterHandshake ==
    \A id \in sessions' \ sessions :
        /\ load_pc \in {"attempt", "handshake"}
        /\ id = servers[load_pos].id
        /\ AttemptEnded /\ EndedRegistered

\* an attempt that ends otherwise (a timeout, an error, a failed spawn)
\* leaves sessions and the exit stacks as they were
FailedAttemptKeepsRegistries ==
    (AttemptEnded /\ ~EndedRegistered) =>
        /\ "close" \in Range(attempt_trace')
        /\ UNCHANGED <<sessions, server_exit_stacks, session_order>>

\* C29: an id is in sessions only when the initialize handshake of its
\* connect returned within the timeout; while no connect is under way
\* sessions and the exit stacks have the same keys and every process handle
\* is that of a session; a failed or timed-out attempt leaves sessions and
\* the exit stacks as they were.
C29_RegistriesConsistent ==
    []RegistriesAgree /\ [][RegisteredAfterHandshake /\ FailedAttemptKeepsRegistries]_vars

\* C29 witness: the first server's attempts, each with a child spawned,
\* have all failed and the second server is connected with its child.
C29_Witness ==
    /\ load_pc = "done"
    /\ Len(servers) = 2
    /\ servers[1].url /\ servers[1].command
    /\ attempts_made[1] >= 2
    /\ sessions = {servers[2].id}
    /\ server_processes = {servers[2].id}

----------------------------------------------------------------------------
(* Claims about the pairing of calls and results in the history (SpecChat) *)

\* message i of the history is a tool result, and after the latest user
\* message before it stands an assistant message with a tool call of its id
PairedAt(history, i) ==
    \E j \in 1..(i - 1) :
        /\ history[j].role = "assistant"
        /\ \A u \in j..i : history[u].role # "user"
        /\ \E k \in 1..Len(history[j].tool_calls) :
              history[j].tool_calls[k].id = history[i].tool_call_id

ToolResultsPaired(history) ==
    \A i \in 1..Len(history) : history[i].role = "tool" => PairedAt(history, i)

\* C30: every tool-result message of the history comes after an assistant
\* message, later than the latest user message, that carries a tool call
\* with the same id, whether the call was issued by the model as a tool
\* call, read out of its text or forced.
C30_ToolResultsPaired == ToolResultsPaired(conversation_history)

\* the results of a turn whose calls were read out of the text or forced
\* are paired when they enter the history
TextAndForcedPaired ==
    [][(is_intercepted_json \/ forced_turn) =>
           \A i \in (Len(conversation_history) + 1)..Len(conversation_history') :
               conversation_history'[i].role = "tool" =>
                   PairedAt(conversation_history', i)]_vars

\* the result of a forced call or of a call read out of the text is in the
\* history after its assistant message
ForcedResultInHistory ==
    /\ Len(conversation_history) = 4
    /\ conversation_history[3].role = "assistant"
    /\ conversation_history[4].role = "tool"
    /\ ToolResultsPaired(conversation_history)

----------------------------------------------------------------------------
(* Claims about the continuation of the loop (SpecChat) *)

\* the list ends the history
IsSuffix(s1, s2) ==
    Len(s1) <= Len(s2) /\ SubSeq(s2, Len(s2) - Len(s1) + 1, Len(s2)) = s1

\* _process_tool_calls has returned a list with an entry that is no error
UsefulCycle ==
    /\ pc = "dispatch" /\ call_idx > Len(tool_calls)
    /\ \E k \in 1..Len(tool_results) : ~StartsWithError(tool_results[k].content)

\* the step after such a cycle puts the whole list at the end of the
\* history, keeps what the history held, and goes to the next request
UsefulCycleContinues ==
    UsefulCycle =>
        /\ pc' = "request"
        /\ returned' = returned
        /\ IsPrefix(conversation_history, conversation_history')
        /\ IsSuffix(tool_results, conversation_history')

\* at the head of the loop the step taken is a request to the model
RequestIsNext == pc = "request" => chat_requests' = chat_requests + 1

\* process_query returns by the cap message, by the failure message, or by
\* the text of a turn that has neither tool calls nor a forced action
ReturnsText ==
    /\ pc # "done" /\ pc' = "done"
    /\ returned' \notin {LoopMessage, FailureMessage}
TextOnlyOnPlainTurn ==
    ReturnsText =>
        /\ pc = "request"
        /\ tool_cycle_count' = tool_cycle_count
        /\ ~forced_turn' /\ ~is_intercepted_json'
        /\ DecideForcedAction(query, returned', tools_map, sensor_snapshot).type = "none"
        /\ conversation_history' = conversation_history

\* C31: a cycle whose list has at least one entry that is no error entry is
\* followed by the appending of the whole list to the history and by the
\* next model request, not by a return; the model's text is returned only
\* on a turn that has no tool calls and no forced action.
C31_LoopContinuation ==
    [][UsefulCycleContinues /\ RequestIsNext /\ TextOnlyOnPlainTurn]_vars

\* C31 witness: the first call of the cycle was answered by its provider and
\* the second one failed; the list has entered the history and the loop
\* stands at its next request.
C31_Witness ==
    /\ pc = "request"
    /\ chat_requests = 1
    /\ Len(conversation_history) = 4
    /\ conversation_history[3].role = "tool"
    /\ ~StartsWithError(conversation_history[3].content)
    /\ conversation_history[4].role = "tool"
    /\ StartsWithError(conversation_history[4].content)

----------------------------------------------------------------------------
(* SpecTurn: process_query on a model whose response is the stream held in *)
(* agg_stream, so that what is dispatched can be compared with what        *)
(* arrived: structured deltas, tool calls written as text, or both.        *)

FencedCall(text) ==
    <<Chunk(Some(<<"FENCE", "json", "SP">>), <<>>), Chunk(Some(text \o <<"NL", "FENCE">>), <<>>)>>

TurnStreams ==
    { \* structured only, text only, plain text
      <<NativeCall(0, GetSensorData, EmptyArgs)>>,
      FencedCall(SensorCallText),
      <<TextChunk>>,
      \* a structured call and a call written as text, in both orders
      <<NativeCall(0, GetSensorData, EmptyArgs)>> \o FencedCall(PumpCallText),
      FencedCall(PumpCallText) \o <<NativeCall(0, GetSensorData, EmptyArgs)>>,
      \* one chunk that carries both
      <<Chunk(Some(PumpCallText), <<DeltaCall(0, Some(GetSensorData), Some(EmptyArgs))>>)>>,
      \* two structured calls around the text of a call
      <<NativeCall(0, GetSensorData, EmptyArgs), Chunk(Some(SensorCallText), <<>>),
        NativeCall(1, ControlPump, PumpArgs)>> }

InitTurn ==
    /\ agg_stream \in TurnStreams
    /\ agg_pos = 0 /\ agg = AggStart
    /\ session_order \in QueryRegistries
    /\ sessions = Range(session_order)
    /\ tools_map = CatalogOf(sessions)
    /\ server_exit_stacks = sessions
    /\ server_processes = {}
    /\ LoadIdle /\ LoopIdle /\ ObsIdle /\ ExtIdle /\ OthersIdle

TurnStart == ProcessQueryStart /\ UNCHANGED hist_vars
TurnRequest == ModelRequestOf({agg_stream}) /\ UNCHANGED hist_vars
TurnDispatch == DispatchCall /\ UNCHANGED hist_vars
TurnEndCycle == EndCycle /\ UNCHANGED hist_vars

NextTurn == TurnStart \/ TurnRequest \/ TurnDispatch \/ TurnEndCycle

SpecTurn == InitTurn /\ [][NextTurn]_vars

----------------------------------------------------------------------------
(* Claims about the source of the calls of a turn (SpecTurn) *)

\* a chunk of the stream carried a tool-call delta
StructuredTurn ==
    \E k \in 1..Len(agg_stream) :
        agg_stream[k].has_delta /\ agg_stream[k].tool_calls # <<>>

\* the text of the stream
StreamText(stream) ==
    Flatten([k \in 1..Len(stream) |->
                IF stream[k].has_delta /\ Truthy(stream[k].content)
                THEN stream[k].content.s ELSE <<>>])

\* the dispatch of the calls of the response (not of a forced call)
DispatchingResponse == pc = "dispatch" /\ ~forced_turn

\* C32: the text of a turn is read for tool calls only when its stream
\* carried no structured tool-call delta; with at least one such delta the
\* calls dispatched are the aggregated records and nothing else, whatever
\* tool-call JSON the text holds.
C32_StructuredBeforeText ==
    /\ is_intercepted_json => ~StructuredTurn
    /\ (DispatchingResponse /\ StructuredTurn) =>
          /\ tool_calls = Aggregate(agg_stream).tool_calls
          /\ model_calls = tool_calls
    /\ (DispatchingResponse /\ ~StructuredTurn) =>
          /\ is_intercepted_json
          /\ tool_calls = ExtractTextToolCalls(StreamText(agg_stream))

\* C32 witness: the stream carried get_sensor_data as a structured call and
\* control_pump as fenced text; the one call under dispatch is the
\* structured one.
C32_Witness ==
    /\ DispatchingResponse /\ StructuredTurn
    /\ ExtractTextToolCalls(StreamText(agg_stream)) # <<>>
    /\ Len(tool_calls) = 1
    /\ NormalizeToolCall(tool_calls[1]).name = Some(GetSensorData)
    /\ call_idx = 2 /\ provider_calls = {1} /\ prompts = {}

----------------------------------------------------------------------------
(* Claims about the fold over deltas of several indices (SpecAgg) *)

\* the deltas of ds that bear the index i, in arrival order
DeltasOf(ds, i) == SelectSeq(ds, LAMBDA d : d.index = i)

\* the indices of ds in the order of their first arrival
RECURSIVE FirstArrivals(_, _)
FirstArrivals(ds, seen) ==
    IF ds = <<>> THEN <<>>
    ELSE IF Head(ds).index \in seen THEN FirstArrivals(Tail(ds), seen)
    ELSE <<Head(ds).index>> \o FirstArrivals(Tail(ds), seen \cup {Head(ds).index})

\* the deltas bear at least two indices, and each of them carries a name
\* chunk or an argument chunk
SeveralIndices(stream) ==
    \A ds \in {StreamDeltas(stream)} :
        /\ \E j, k \in 1..Len(ds) : ds[j].index # ds[k].index
        /\ \A k \in 1..Len(ds) : ds[k].name.some \/ ds[k].arguments.some

\* one record per index, in the order of first arrival, each the
\* concatenation of the chunks of its own index
OneRecordPerIndex ==
    \A ds \in {StreamDeltas(agg_stream)} :
    \A order \in {FirstArrivals(ds, {})} :
        /\ ~agg.raised
        /\ Len(agg.tool_calls) = Len(order)
        /\ \A k \in 1..Len(order) :
              /\ k <= Len(agg.tool_calls)
              /\ agg.tool_calls[k].index = order[k]
              /\ OrEmpty(agg.tool_calls[k].name) = ConcatNames(DeltasOf(ds, order[k]))
              /\ OrEmpty(agg.tool_calls[k].arguments)
                    = ConcatArguments(DeltasOf(ds, order[k]))

\* C33: a stream whose deltas bear several indices, interleaved in any
\* order, folds into one record per index, in the order in which the
\* indices first arrived, the name and the argument string of each being
\* the concatenation, in arrival order, of the chunks of its index alone.
C33_OneRecordPerIndex ==
    (AggFinished /\ SeveralIndices(agg_stream)) => OneRecordPerIndex

\* What the fold does guarantee: the same, for the streams in which every
\* delta carries an argument string.
AggPerIndexWhenArgumentsPresent ==
    (AggFinished /\ SeveralIndices(agg_stream) /\ AggEveryDeltaHasArguments(agg_stream))
        => OneRecordPerIndex

\* the deltas of index 1, 0, 1 have been folded into two records
InterleavedFolded ==
    /\ AggFinished /\ ~agg.raised
    /\ Len(agg_stream) = 3
    /\ FirstArrivals(StreamDeltas(agg_stream), {}) = <<1, 0>>
    /\ Len(DeltasOf(StreamDeltas(agg_stream), 1)) = 2
    /\ Len(agg.tool_calls) = 2
    /\ agg.tool_calls[1].arguments = Some(<<"{", "}">>)

----------------------------------------------------------------------------
(* Claims about the bound of the polling (SpecPoll) *)

\* at most floor(tool_timeout / 5) polls
PollCountBounded == Len(poll_log) * PollInterval <= poll_deadline

\* the sleep before a poll begins where the poll before it ended and ends,
\* PollInterval later, no later than the deadline
SleepsEndByDeadline ==
    \A k \in 1..Len(poll_log) :
        /\ poll_log[k].at = (IF k = 1 THEN 0 ELSE poll_log[k - 1].ended) + PollInterval
        /\ poll_log[k].at <= poll_deadline
        /\ poll_log[k].ended >= poll_log[k].at

\* a poll that raised, timed out or answered no JSON is the last one
StopsAtFailedPoll ==
    /\ \A k \in 1..(Len(poll_log) - 1) : poll_log[k].kind = "ok"
    /\ (poll_pc = "polling" /\ poll_log # <<>>) => poll_log[Len(poll_log)].kind = "ok"

\* the loop never stands still: while it polls, a pass or its end can be
\* taken
PollCanGoOn == poll_pc = "polling" => (ENABLED PollStep \/ ENABLED PollDeadline)

\* C34: whatever the provider answers, the poll loop makes at most
\* floor(tool_timeout / 5) status queries, none when tool_timeout is less
\* than 5, begins no sleep that would end after the deadline, and ends at
\* the first poll that raises or times out.
C34_PollingBounded ==
    PollCountBounded /\ SleepsEndByDeadline /\ StopsAtFailedPoll /\ PollCanGoOn

\* C34 witness: with tool_timeout 17 the third poll, begun at second 15,
\* has timed out and the call has returned.
C34_Witness ==
    /\ poll_pc = "done"
    /\ poll_deadline = MaxPollTimeout
    /\ Len(poll_log) = MaxPollTimeout \div PollInterval
    /\ poll_log[Len(poll_log)].kind = "timeout"

----------------------------------------------------------------------------
(* Claims about clean() as a whole (SpecClean) *)

\* the registries, the catalog and the history are empty
AllCleared ==
    /\ sessions = {} /\ server_exit_stacks = {} /\ server_processes = {}
    /\ tools_map = EmptyCatalog /\ conversation_history = <<>>

\* the ids whose entry of the given kind is in the log
LoggedIds(kind) == {clean_log[i][2] : i \in {j \in 1..Len(clean_log) : clean_log[j][1] = kind}}

\* no termination is followed by a close
ScopesBeforeProcesses ==
    \A i, j \in 1..Len(clean_log) :
        (clean_log[i][1] = "terminate" /\ clean_log[j][1] = "aclose") => j < i

\* clean() returns from its last line only, with every registered scope
\* closed (or its close tried) and every registered process terminated (or
\* its termination tried), and leaves everything empty
ReturnsAfterAllAttempts ==
    (clean_pc # "done" /\ clean_pc' = "done") =>
        /\ LoggedIds("aclose") = server_exit_stacks
        /\ LoggedIds("terminate") = server_processes
        /\ Len(clean_log) = Cardinality(server_exit_stacks) + Cardinality(server_processes)
        /\ AllCleared'

\* a clean() called after a clean() has returned closes and terminates
\* nothing and leaves everything as it was
SecondCleanIdle ==
    (clean_pc = "done" /\ clean_pc' # "done") =>
        (clean_log' = <<>> /\ clean_queue' = <<>> /\ AllCleared' /\ proc_exited' = proc_exited)

\* no error of a close leaves clean()
CleanNeverRaises == clean_pc # "raised"

\* C35: after clean() returns, the sessions, the exit stacks, the processes,
\* the catalog and the history are all empty; the close of every registered
\* exit stack and the termination of every registered process were tried,
\* the stacks first, also when closes raise; a second clean() changes
\* nothing.
C35_CleanIsTotal ==
    /\ [](CleanNeverRaises /\ ScopesBeforeProcesses /\ (clean_pc = "done" => AllCleared))
    /\ [][ReturnsAfterAllAttempts /\ SecondCleanIdle]_vars

\* C35 witness: clean() has returned on a client of two sessions, each with
\* a process, where the close of the first exit stack raised.
C35_Witness ==
    /\ clean_pc = "done"
    /\ Len(clean_log) = 4
    /\ clean_log[1][3] = "RuntimeError"
    /\ clean_log[4][1] = "terminate"

\* a second clean() has been called and has returned
SecondCleanReturned == clean_pc = "done" /\ clean_log = <<>> /\ term_trace # <<>>

----------------------------------------------------------------------------
(* SpecWeb: two queries submitted to the one MCPClient of the web front    *)
(* end (app.py: POST /api/query, POST /api/confirm and the 'query'         *)
(* message of /ws all call mcp_client.process_query).  The handlers are    *)
(* coroutines of one event loop: a handler runs until it awaits something  *)
(* that is not ready.  In process_query the request to the model is a      *)
(* synchronous call (lines 420-471) and _build_tool_list awaits nothing,   *)
(* so the only such await is the provider call of the dispatcher (line     *)
(* 611); there the event loop may start or resume another handler.         *)

MaxWebRequests == 3

WebRequests == {1, 2}
WebQuery(i) == IF i = 1 THEN <<"hello">> ELSE <<"sousuo", "x">>

\* what the model answers to request i: a call of the sensor tool, under
\* an id of its own, or a text
WebStreamsOf(i) == { <<NativeCall(i - 1, GetSensorData, EmptyArgs)>>, <<TextChunk>> }

\* the request whose process_query runs, 0 when none does
RunningRequest == IF pc = "idle" THEN 0 ELSE IF query = WebQuery(1) THEN 1 ELSE 2

\* request i has entered process_query
Submitted(i) == UserMessage(WebQuery(i)) \in Range(conversation_history)

\* the locals of the running process_query
Frame ==
    [pc |-> pc, query |-> query, tool_cycle_count |-> tool_cycle_count,
     tool_calls |-> tool_calls, call_idx |-> call_idx, tool_results |-> tool_results,
     is_intercepted_json |-> is_intercepted_json, forced_turn |-> forced_turn,
     returned |-> returned, requests |-> requests,
     dispatched_cycles |-> dispatched_cycles, premise_ok |-> premise_ok,
     result_classes |-> result_classes, provider_calls |-> provider_calls,
     prompts |-> prompts, last_prompt |-> last_prompt, model_calls |-> model_calls]

\* the dispatcher has awaited a provider call, `await asyncio.wait_for(
\* session.call_tool(...))` (line 611): the call it dispatched last went to
\* its provider.  DispatchCall is the whole pass of the for loop, the await
\* included, and changes locals only, so the handlers that ran during the
\* await are taken after it
AwaitsProvider ==
    /\ pc = "dispatch"
    /\ call_idx > 1
    /\ \E tc \in {tool_calls[call_idx - 1]} : NormalizeToolCall(tc).id \in provider_calls

InitWeb == InitChat

\* a handler calls mcp_client.process_query (app.py lines 253-256, 284 and
\* 379): lines 403-410 of process_query
WebStart ==
    /\ \E i \in WebRequests :
         /\ ~Submitted(i)
         /\ ProcessQueryStart
         /\ query' = WebQuery(i)
    /\ chat_turns' = chat_turns + 1
    /\ UNCHANGED chat_requests
    /\ conversation_history' =
          Append(IF conversation_history = <<>> THEN <<SystemMessage>>
                 ELSE conversation_history,
                 UserMessage(query'))

WebRequest ==
    /\ chat_requests < MaxWebRequests
    /\ chat_requests' = chat_requests + 1
    /\ ModelRequestOf(WebStreamsOf(RunningRequest))
    /\ conversation_history' =
          IF forced_turn' THEN Append(conversation_history, AssistantToolCalls(tool_calls'))
          ELSE conversation_history
    /\ UNCHANGED chat_turns

\* the running handler was suspended at the provider call and the event
\* loop took another handler: the frame is set aside
WebPark ==
    /\ AwaitsProvider
    /\ (\E i \in WebRequests : ~Submitted(i)) \/ web_parked # <<>>
    /\ web_parked' = Append(web_parked, Frame)
    /\ pc' = "idle" /\ query' = <<>> /\ tool_cycle_count' = 0
    /\ tool_calls' = <<>> /\ call_idx' = 0 /\ tool_results' = <<>>
    /\ is_intercepted_json' = FALSE /\ forced_turn' = FALSE
    /\ returned' = <<>> /\ sensor_snapshot' = FALSE
    /\ requests' = 0 /\ dispatched_cycles' = 0 /\ premise_ok' = TRUE
    /\ result_classes' = <<>> /\ provider_calls' = {} /\ prompts' = {}
    /\ last_prompt' = NoPrompt /\ model_calls' = <<>>
    /\ UNCHANGED <<hist_vars, reg_vars, load_vars, ext_vars, agg_vars, list_vars, poll_vars,
                   clean_vars, phase_vars, api_vars, admit_vars, srv_vars>>

\* the provider call of a suspended handler is over and the event loop
\* resumes it; what the history holds is read anew (lines 799-809)
WebResume ==
    /\ pc = "idle"
    /\ \E k \in 1..Len(web_parked) :
       \E f \in {web_parked[k]} :
         /\ web_parked' = SubSeq(web_parked, 1, k - 1)
                             \o SubSeq(web_parked, k + 1, Len(web_parked))
         /\ pc' = f.pc /\ query' = f.query /\ tool_cycle_count' = f.tool_cycle_count
         /\ tool_calls' = f.tool_calls /\ call_idx' = f.call_idx
         /\ tool_results' = f.tool_results
         /\ is_intercepted_json' = f.is_intercepted_json /\ forced_turn' = f.forced_turn
         /\ returned' = f.returned /\ requests' = f.requests
         /\ dispatched_cycles' = f.dispatched_cycles /\ premise_ok' = f.premise_ok
         /\ result_classes' = f.result_classes /\ provider_calls' = f.provider_calls
         /\ prompts' = f.prompts /\ last_prompt' = f.last_prompt
         /\ model_calls' = f.model_calls
    /\ sensor_snapshot' = HasSensorSnapshotSinceLastUser(conversation_history)
    /\ UNCHANGED <<hist_vars, reg_vars, load_vars, ext_vars, agg_vars, list_vars, poll_vars,
                   clean_vars, phase_vars, api_vars, admit_vars, srv_vars>>

NextWeb ==
    \/ WebStart \/ WebRequest \/ ChatDispatch \/ ChatEndCycle \/ ChatReturn
    \/ WebPark \/ WebResume

SpecWeb == InitWeb /\ [][NextWeb]_vars

----------------------------------------------------------------------------
(* Claims about concurrent queries (SpecWeb) *)

\* the request a message of the history belongs to, 0 for the system prompt
OwnerOf(m) ==
    IF m.role = "user" /\ m.content = WebQuery(1) THEN 1
    ELSE IF m.role = "user" /\ m.content = WebQuery(2) THEN 2
    ELSE IF m.role = "tool" THEN m.tool_call_id
    ELSE 0

\* the messages of each request stand side by side in the history
BlocksContiguous ==
    \A i, j, k \in 1..Len(conversation_history) :
        (i < j /\ j < k /\ OwnerOf(conversation_history[i]) # 0
               /\ OwnerOf(conversation_history[i]) = OwnerOf(conversation_history[k]))
        => OwnerOf(conversation_history[j]) = OwnerOf(conversation_history[i])

\* no process_query runs while another one is under way
OneTurnAtATime == web_parked # <<>> => pc = "idle"

\* C36: of two queries submitted concurrently to the client of the web
\* front end, one turn is processed to completion before the next starts,
\* and the messages each appends to the shared history (its user message
\* and its tool results) are a block that no message of the other
\* interrupts.
C36_TurnsAtomic == OneTurnAtATime /\ BlocksContiguous

\* the tool result of the first request stands after the user message of
\* the second
InterleavedHistory ==
    /\ Len(conversation_history) = 4
    /\ OwnerOf(conversation_history[2]) = 1 /\ OwnerOf(conversation_history[3]) = 2
    /\ OwnerOf(conversation_history[4]) = 1

----------------------------------------------------------------------------
(* SpecAdmit: the start of the web front end.  startup_event (app.py lines *)
(* 83-86) creates the task init_mcp_client (88-124), which sleeps, builds  *)
(* the client, loads the servers and refreshes the catalog, each an await  *)
(* during which the handlers of the three entry points run.  What the      *)
(* constructor, the loading and the refresh meet is chosen per step; the   *)
(* client itself is not run.                                               *)

MaxWebCalls == 3

EntryPoints == {"api_query", "api_confirm", "ws_query"}

\* the variables of the client, and all those that the start of the front
\* end leaves alone
core_vars == <<reg_vars, load_vars, loop_vars, obs_vars, ext_vars, agg_vars, hist_vars,
               list_vars, poll_vars, clean_vars, phase_vars, api_vars>>
client_vars == <<core_vars, web_vars, srv_vars>>

InitAdmit ==
    /\ init_pc = "sleeping" /\ mcp_client_set = FALSE /\ mcp_initialized = FALSE
    /\ web_log = <<>>
    /\ RegIdle /\ LoadIdle /\ LoopIdle /\ ObsIdle /\ ExtIdle /\ AggIdle
    /\ HistIdle /\ ListIdle /\ PollIdle /\ CleanIdle /\ PhaseIdle /\ ApiIdle /\ WebIdle
    /\ SrvIdle

\* lines 93-112: the sleep is over; the client is built and bound to the
\* global before anything is loaded; without a config file the function
\* returns; an exception of the import or of the constructor is caught at
\* line 122 before the global is bound
InitCreateClient ==
    /\ init_pc = "sleeping"
    /\ \E built \in BOOLEAN, config_exists \in BOOLEAN :
         /\ mcp_client_set' = built
         /\ init_pc' = IF ~built THEN "failed"
                       ELSE IF ~config_exists THEN "restricted" ELSE "loading"
    /\ UNCHANGED <<mcp_initialized, web_log, client_vars>>

\* line 114: await mcp_client.load_servers_from_config(config_path)
InitLoadEnds ==
    /\ init_pc = "loading"
    /\ \E raised \in BOOLEAN : init_pc' = IF raised THEN "failed" ELSE "listing"
    /\ UNCHANGED <<mcp_client_set, mcp_initialized, web_log, client_vars>>

\* lines 115-117: await mcp_client.list_tools(), then the flag
InitListEnds ==
    /\ init_pc = "listing"
    /\ \E raised \in BOOLEAN :
         /\ init_pc' = IF raised THEN "failed" ELSE "ready"
         /\ mcp_initialized' = ~raised
    /\ UNCHANGED <<mcp_client_set, web_log, client_vars>>

\* one entry of web_log
Received(entry, outcome) ==
    [entry |-> entry, outcome |-> outcome, initialized |-> mcp_initialized,
     init_pc |-> init_pc]

\* a guard that lets every query through
AdmittedAlways(initialized, client_set) == TRUE

\* `if not mcp_initialized or not mcp_client: raise HTTPException(503)`
\* (lines 247-248 and 280-281)
Admitted(initialized, client_set) == initialized /\ client_set

\* POST /api/query (lines 244-256) and POST /api/confirm (277-284)
HttpQuery ==
    /\ Len(web_log) < MaxWebCalls
    /\ \E entry \in {"api_query", "api_confirm"} :
         web_log' = Append(web_log,
                           Received(entry, IF Admitted(mcp_initialized, mcp_client_set)
                                           THEN "process_query" ELSE "rejected"))
    /\ UNCHANGED <<init_pc, mcp_client_set, mcp_initialized, client_vars>>

\* a 'query' message of /ws (lines 377-390): mcp_client.process_query is
\* called with no test; on None the AttributeError is answered as an
\* 'error' message
WsQuery ==
    /\ Len(web_log) < MaxWebCalls
    /\ web_log' = Append(web_log,
                         Received("ws_query", IF mcp_client_set THEN "process_query"
                                              ELSE "error"))
    /\ UNCHANGED <<init_pc, mcp_client_set, mcp_initialized, client_vars>>

NextAdmit == InitCreateClient \/ InitLoadEnds \/ InitListEnds \/ HttpQuery \/ WsQuery

SpecAdmit == InitAdmit /\ [][NextAdmit]_vars

----------------------------------------------------------------------------
(* Claims about queries during the initialization (SpecAdmit) *)

\* the queries of the given entry points reached process_query only when
\* the initialization had set mcp_initialized
ReachedOnlyInitialized(entries) ==
    \A k \in 1..Len(web_log) :
        (web_log[k].entry \in entries /\ web_log[k].outcome = "process_query")
        => (web_log[k].initialized /\ web_log[k].init_pc = "ready")

\* mcp_initialized is set by the end of the catalog refresh only
FlagMeansReady == mcp_initialized <=> init_pc = "ready"

\* C37: no query reaches MCPClient.process_query before the background
\* initialization (loading, then catalog refresh) has set mcp_initialized;
\* POST /api/query, POST /api/confirm and the 'query' message of /ws all
\* reject a query while the initialization is in progress.
C37_NoQueryBeforeInit == FlagMeansReady /\ ReachedOnlyInitialized(EntryPoints)

\* the two HTTP entry points keep the rule
HttpQueriesGuarded ==
    FlagMeansReady /\ ReachedOnlyInitialized({"api_query", "api_confirm"})

\* a 'query' message of /ws reached process_query while the servers were
\* being loaded, and a POST /api/query of the same moment was rejected
WsQueryDuringLoading ==
    \E j, k \in 1..Len(web_log) :
        /\ web_log[j].entry = "ws_query" /\ web_log[j].outcome = "process_query"
        /\ web_log[j].init_pc = "loading"
        /\ web_log[k].entry = "api_query" /\ web_log[k].outcome = "rejected"
        /\ web_log[k].init_pc = "loading"

----------------------------------------------------------------------------
(* SpecTasks: the tasks of the browser server (server.py).  browser_use    *)
(* stores a task and creates its coroutine run_browser_task_async, which   *)
(* runs one await at a time; browser_stop_task, browser_get_result and the *)
(* periodic cleanup_old_tasks run between its steps.  PATIENT_MODE is off, *)
(* its default (line 127).  A task id is a uuid4 that a caller learns from *)
(* an answer of the server, and the first step of the coroutine is in the  *)
(* ready queue of the event loop before any answer is written, so no call  *)
(* names a task that has not yet started.  The agent of the browser_use    *)
(* library is taken as an awaitable that a cancellation ends with          *)
(* CancelledError.                                                         *)

MaxSrvCalls == 2

\* a task for which the exception handler for plain errors takes the
\* cancellation too
EndStatusFailing(outcome) ==
    IF outcome = "returned" THEN "completed" ELSE "failed"

\* lines 338-353: the status stored after `await agent.run` returned, raised
\* CancelledError or raised another exception
EndStatus(outcome) ==
    IF outcome = "returned" THEN "completed"
    ELSE IF outcome = "CancelledError" THEN "cancelled"
    ELSE "failed"

\* a task that stays in running_tasks when it has ended
RunningKept(running, id) == running

\* finally: `if task_id in running_tasks: del running_tasks[task_id]`
\* (lines 358-361)
RunningAfterEnd(running, id) == running \ {id}

\* a handler that answers 'cancelled' to every stop
StopStatusAlways(found) == "cancelled"

\* the status of the answer of browser_stop_task (lines 601-619)
StopStatus(found) == IF found THEN "cancelled" ELSE "not_found_or_already_finished"

InitTasks ==
    /\ SrvIdle /\ WebIdle /\ AdmitIdle
    /\ RegIdle /\ LoadIdle /\ LoopIdle /\ ObsIdle /\ ExtIdle /\ AggIdle
    /\ HistIdle /\ ListIdle /\ PollIdle /\ CleanIdle /\ PhaseIdle /\ ApiIdle

\* browser_use (lines 457-490 and 522-542): the task is stored as pending,
\* its coroutine is created and registered in running_tasks
BrowserUseCall ==
    /\ \E id \in TaskIds :
         /\ task_pc[id] = "none"
         /\ \A other \in TaskIds : other < id => task_pc[other] # "none"
         /\ task_store' = [task_store EXCEPT ![id] = "pending"]
         /\ running_tasks' = running_tasks \cup {id}
         /\ task_pc' = [task_pc EXCEPT ![id] = "unstarted"]
    /\ UNCHANGED <<cancel_calls, srv_log, core_vars, web_vars, admit_vars>>

\* the first step of run_browser_task_async (lines 229-302): the status
\* becomes running and the coroutine awaits the agent
TaskStartOf(id) ==
    /\ task_pc[id] = "unstarted"
    /\ task_store' = [task_store EXCEPT ![id] = "running"]
    /\ task_pc' = [task_pc EXCEPT ![id] = "agent"]
    /\ UNCHANGED <<running_tasks, cancel_calls, srv_log, core_vars, web_vars, admit_vars>>

TaskStart == \E id \in TaskIds : TaskStartOf(id)

\* what the await of the agent meets: once Task.cancel() was called the
\* next step of the coroutine raises CancelledError at the await
AgentOutcomes(id) ==
    IF cancel_calls[id] > 0 THEN {"CancelledError"} ELSE {"returned", "Exception"}

\* the coroutine leaves `await agent.run` (line 302): lines 305-356 store
\* the status and the finally block takes the id out of running_tasks
\* (358-361), all without an await
TaskEndsOf(id) ==
    /\ task_pc[id] = "agent"
    /\ \E outcome \in AgentOutcomes(id) :
         task_store' = [task_store EXCEPT ![id] = EndStatus(outcome)]
    /\ running_tasks' = RunningAfterEnd(running_tasks, id)
    /\ task_pc' = [task_pc EXCEPT ![id] = "cleanup"]
    /\ UNCHANGED <<cancel_calls, srv_log, core_vars, web_vars, admit_vars>>

TaskEnds == \E id \in TaskIds : TaskEndsOf(id)

\* lines 363-373: the context and the browser are closed
TaskCleanup ==
    /\ \E id \in TaskIds :
         /\ task_pc[id] = "cleanup"
         /\ task_pc' = [task_pc EXCEPT ![id] = "done"]
    /\ UNCHANGED <<task_store, running_tasks, cancel_calls, srv_log,
                   core_vars, web_vars, admit_vars>>

\* browser_stop_task (lines 595-619)
StopTask ==
    /\ Len(srv_log) < MaxSrvCalls
    /\ \E id \in TaskIds :
         /\ task_pc[id] # "unstarted"
         /\ cancel_calls' = IF id \in running_tasks
                            THEN [cancel_calls EXCEPT ![id] = @ + 1]
                            ELSE cancel_calls
         /\ srv_log' = Append(srv_log, [tool |-> "browser_stop_task", task_id |-> id,
                                        status |-> StopStatus(id \in running_tasks)])
    /\ UNCHANGED <<task_store, running_tasks, task_pc, core_vars, web_vars, admit_vars>>

\* browser_get_result (lines 545-592): the entry of the store, or an error
\* for an id that is no key of it
GetResult ==
    /\ Len(srv_log) < MaxSrvCalls
    /\ \E id \in TaskIds :
         /\ task_pc[id] # "unstarted"
         /\ srv_log' = Append(srv_log, [tool |-> "browser_get_result", task_id |-> id,
                                        status |-> IF task_store[id] = "absent"
                                                   THEN "error" ELSE task_store[id]])
    /\ UNCHANGED <<task_store, running_tasks, task_pc, cancel_calls,
                   core_vars, web_vars, admit_vars>>

\* one pass of cleanup_old_tasks (lines 383-411): the completed and failed
\* tasks that ended more than an hour ago leave the store
CleanupOldTasks ==
    /\ \E old \in SUBSET {id \in TaskIds : task_store[id] \in {"completed", "failed"}} :
         /\ old # {}
         /\ task_store' = [id \in TaskIds |-> IF id \in old THEN "absent" ELSE task_store[id]]
    /\ UNCHANGED <<running_tasks, task_pc, cancel_calls, srv_log,
                   core_vars, web_vars, admit_vars>>

NextTasks ==
    \/ BrowserUseCall \/ TaskStart \/ TaskEnds \/ TaskCleanup
    \/ StopTask \/ GetResult \/ CleanupOldTasks

SpecTasks == InitTasks /\ [][NextTasks]_vars

\* the event loop runs a coroutine that is ready: a task that was created
\* takes its first step, and a task that was cancelled is woken
SpecTasksFair ==
    /\ SpecTasks
    /\ \A id \in TaskIds :
         WF_vars(TaskStartOf(id)) /\ WF_vars(cancel_calls[id] > 0 /\ TaskEndsOf(id))

----------------------------------------------------------------------------
(* Claims about the browser tasks (SpecTasks) *)

\* a status changes along pending -> running -> terminal only, and a
\* terminal status is never replaced by another status
StatusMovesForward ==
    \A id \in TaskIds :
        (task_store'[id] # task_store[id] /\ task_store'[id] # "absent") =>
            \/ task_store[id] = "absent" /\ task_store'[id] = "pending"
            \/ task_store[id] = "pending" /\ task_store'[id] = "running"
            \/ task_store[id] = "running" /\ task_store'[id] \in TerminalStatuses

\* an entry leaves the store only once its status is terminal, and no id is
\* stored a second time
StoredOnce ==
    \A id \in TaskIds :
        /\ (task_store[id] # "absent" /\ task_store'[id] = "absent")
              => task_store[id] \in TerminalStatuses
        /\ (task_store[id] = "absent" /\ task_store'[id] # "absent")
              => task_pc[id] = "none"

\* the keys of running_tasks are tasks that are pending or running
RunningArePending ==
    \A id \in running_tasks : task_store[id] \in {"pending", "running"}

\* C38: the status of a task in task_store only moves pending -> running ->
\* one of completed, failed, cancelled; once terminal it never changes; and
\* an id is in running_tasks only while its status is pending or running.
C38_TaskLifecycle ==
    /\ []RunningArePending
    /\ [][StatusMovesForward /\ StoredOnce]_vars

\* C38 witness: one task was cancelled and has left running_tasks, the
\* other is running.
C38_Witness ==
    /\ task_store[1] = "cancelled" /\ 1 \notin running_tasks
    /\ task_store[2] = "running" /\ 2 \in running_tasks

\* the step is a call of browser_stop_task for the id
StopStep(id) ==
    /\ Len(srv_log') = Len(srv_log) + 1
    /\ srv_log'[Len(srv_log')].tool = "browser_stop_task"
    /\ srv_log'[Len(srv_log')].task_id = id

\* what a call of browser_stop_task does
StopAnswers ==
    \A id \in TaskIds :
        StopStep(id) =>
            /\ id \in running_tasks =>
                  /\ cancel_calls' = [cancel_calls EXCEPT ![id] = cancel_calls[id] + 1]
                  /\ srv_log'[Len(srv_log')].status = "cancelled"
            /\ id \notin running_tasks =>
                  /\ cancel_calls' = cancel_calls
                  /\ srv_log'[Len(srv_log')].status = "not_found_or_already_finished"
            /\ running_tasks' = running_tasks /\ task_store' = task_store

\* C39: browser_stop_task for an id in running_tasks requests the
\* cancellation of that task exactly once and answers 'cancelled'; for any
\* other id it answers 'not_found_or_already_finished' and changes neither
\* running_tasks nor task_store.
C39_StopTaskResponse == [][StopAnswers]_vars

\* C39 witness: the first stop of a running task was answered 'cancelled',
\* and a second stop, after the task had ended, 'not found'.
C39_Witness ==
    /\ Len(srv_log) = 2
    /\ srv_log[1] = [tool |-> "browser_stop_task", task_id |-> 1, status |-> "cancelled"]
    /\ srv_log[2] = [tool |-> "browser_stop_task", task_id |-> 1,
                     status |-> "not_found_or_already_finished"]
    /\ cancel_calls[1] = 1

\* browser_stop_task has answered 'cancelled' for the id
StopAnswered(id) ==
    \E k \in 1..Len(srv_log) :
        /\ srv_log[k].tool = "browser_stop_task" /\ srv_log[k].task_id = id
        /\ srv_log[k].status = "cancelled"

\* the task is stored as cancelled and is no key of running_tasks
Cancelled(id) == task_store[id] = "cancelled" /\ id \notin running_tasks

\* a stopped task is running until it is cancelled: never pending, never
\* completed or failed, never out of the store
StoppedNeverCompletes ==
    \A id \in TaskIds : StopAnswered(id) => task_store[id] \in {"running", "cancelled"}

\* browser_get_result answers with the status of the store
GetResultReadsStore ==
    \A id \in TaskIds :
        (/\ Len(srv_log') = Len(srv_log) + 1
         /\ srv_log'[Len(srv_log')].tool = "browser_get_result"
         /\ srv_log'[Len(srv_log')].task_id = id
         /\ Cancelled(id))
        => srv_log'[Len(srv_log')].status = "cancelled"

====
